---- MODULE Spec2Model ----
(***************************************************************************)
(* AudioWeaver: the asynchronous document-to-audio processing job.         *)
(*                                                                         *)
(* The module models the Job Store (server/storage.ts), the create-job     *)
(* route and the background run processDocuments (server/routes.ts), and   *)
(* the title/description derivation of generateSummary                     *)
(* (server/lib/gemini-api.ts), the status route and the polling view       *)
(* (client/src/components/processing-section.tsx).                         *)
(*                                                                         *)
(* A JavaScript string is a sequence of one-character strings.  An await   *)
(* is a scheduling point: one action is the completion of the awaited      *)
(* operation followed by the synchronous code up to the next await.        *)
(***************************************************************************)
EXTENDS Integers, Sequences, FiniteSets, TLC

VARIABLES
    uploads,      \* uploads table: upload id (position) -> filename
    apiKeys,      \* api_keys table: at most one row
    env,          \* process.env: GEMINI_API_KEY, ELEVENLABS_API_KEY
    jobs,         \* processing_jobs table: job id (position) -> row
    summaries,    \* summaries table: summary id (position) -> row
    files,        \* uploads directory: audio file stamp -> content
    now,          \* the last value Date.now() returned
    run,          \* per job: the local state of its processDocuments call
    resp,         \* the last response of POST /api/process
    faults,       \* how many database or file-system calls of runs have thrown
    narrative,    \* text derivation: the text the model returned
    result,       \* text derivation: what generateSummary returned for it
    view,         \* client: the state of the ProcessingSection component
    effects,      \* client: the runs of its effect, each with its closure
    polls,        \* client: the status requests issued, each with its stage
    handled,      \* client: the calls of onProcessingComplete and onError
    reflections,  \* reflections table: reflection id (position) -> row
    audioNotes    \* audio_notes table: note id (position) -> row

vars == <<uploads, apiKeys, env, jobs, summaries, files, now, run, resp,
          faults, narrative, result, view, effects, polls, handled,
          reflections, audioNotes>>

(***************************************************************************)
(* Bounds                                                                  *)
(***************************************************************************)
MaxTextLen == 5

MaxUploads == 2

MaxJobs == 1

MaxClock == 1

MaxFaults == 1

MaxOver == 3

MaxPolls == 2

MaxEffects == 3

MaxConcurrent == 2

MaxStatusRequests == 1

MaxNotes == 1

(***************************************************************************)
(* Strings                                                                 *)
(***************************************************************************)
Alphabet == {"a", "b", "#", " ", "\n"}

Strings(n) == UNION {[1..k -> Alphabet] : k \in 0..n}

\* String.prototype.split on a one-character separator: the pieces between
\* the successive occurrences of sep
Split(s, sep) ==
    LET cuts == {i \in 1..Len(s) : s[i] = sep}
        cut(k) == IF k = 0 THEN 0
                  ELSE IF k > Cardinality(cuts) THEN Len(s) + 1
                  ELSE CHOOSE i \in cuts :
                           Cardinality({c \in cuts : c <= i}) = k
    IN [k \in 1..(Cardinality(cuts) + 1) |->
           SubSeq(s, cut(k - 1) + 1, cut(k) - 1)]

IsSpace(c) == c \in {" ", "\n"}

\* line.trim().length
TrimLength(s) ==
    IF \A i \in 1..Len(s) : IsSpace(s[i]) THEN 0
    ELSE LET first == CHOOSE i \in 1..Len(s) :
                          /\ ~IsSpace(s[i])
                          /\ \A k \in 1..(i - 1) : IsSpace(s[k])
             last == CHOOSE i \in 1..Len(s) :
                          /\ ~IsSpace(s[i])
                          /\ \A k \in (i + 1)..Len(s) : IsSpace(s[k])
         IN last - first + 1

\* text.split('\n').filter(line => line.trim().length > 0)
NonEmptyLines(text) ==
    SelectSeq(Split(text, "\n"), LAMBDA line : TrimLength(line) > 0)

\* the length of the match of \s* at position i
RECURSIVE SpaceRun(_, _)
SpaceRun(s, i) ==
    IF i <= Len(s) /\ IsSpace(s[i]) THEN 1 + SpaceRun(s, i + 1) ELSE 0

\* line.replace(/^#\s*/, '')
StripHeading(line) ==
    IF Len(line) > 0 /\ line[1] = "#"
    THEN SubSeq(line, 2 + SpaceRun(line, 2), Len(line))
    ELSE line

DefaultTitle ==
    <<"D","o","c","u","m","e","n","t"," ","S","u","m","m","a","r","y">>

DefaultDescription ==
    <<"A","n"," ","A","I","-","g","e","n","e","r","a","t","e","d"," ",
      "s","u","m","m","a","r","y"," ","o","f"," ","t","h","e"," ",
      "u","p","l","o","a","d","e","d"," ","d","o","c","u","m","e","n","t","s",".">>

Ellipsis == <<".", ".", ".">>

DescriptionLimit == 200

DescriptionCut == 197

\* const title = lines.length > 0 ? lines[0].replace(/^#\s*/, '') : "Document Summary"
DeriveTitle(lines) ==
    IF Len(lines) > 0 THEN StripHeading(lines[1]) ELSE DefaultTitle

\* the loop over lines[1..]: the first line after the title only sets
\* foundFirstParagraph, the next one becomes the description
RECURSIVE DescriptionLoop(_, _, _)
DescriptionLoop(lines, i, foundFirstParagraph) ==
    IF i > Len(lines) THEN <<>>
    ELSE IF TrimLength(lines[i]) > 0
         THEN IF ~foundFirstParagraph
              THEN DescriptionLoop(lines, i + 1, TRUE)
              ELSE lines[i]
         ELSE DescriptionLoop(lines, i + 1, foundFirstParagraph)

\* the description of the mutant that cuts at the limit instead of below it
DeriveDescription_CutAtLimit(lines) ==
    LET found == DescriptionLoop(lines, 2, FALSE)
        d == IF found = <<>> THEN DefaultDescription ELSE found
    IN IF Len(d) > DescriptionLimit
       THEN SubSeq(d, 1, DescriptionLimit) \o Ellipsis
       ELSE d

\* description, with the fallback and the cut to 200 characters
DeriveDescription(lines) ==
    LET found == DescriptionLoop(lines, 2, FALSE)
        d == IF found = <<>> THEN DefaultDescription ELSE found
    IN IF Len(d) > DescriptionLimit
       THEN SubSeq(d, 1, DescriptionCut) \o Ellipsis
       ELSE d

\* the SummaryResult generateSummary returns for the model's text
SummaryResult(text) ==
    LET lines == NonEmptyLines(text)
    IN [title |-> DeriveTitle(lines),
        description |-> DeriveDescription(lines),
        text |-> text]

(***************************************************************************)
(* Request bodies of POST /api/process, as JSON values                     *)
(***************************************************************************)
Undefined == [kind |-> "undefined"]

Num(n) == [kind |-> "number", n |-> n]

Str(s) == [kind |-> "string", s |-> s]

Arr(items) == [kind |-> "array", items |-> items]

ContextFields == {"question", "knowledge", "interest", "conversation"}

\* an object with the four context keys (a key may be undefined) and
\* possibly one more key the schema does not know
Ctx(q, k, i, c, extra) ==
    [kind |-> "object", question |-> q, knowledge |-> k, interest |-> i,
     conversation |-> c, extra |-> extra]

\* bodies the schema accepts
ValidBodies ==
    { [uploadIds |-> Arr(<<Num(1)>>), context |-> Undefined],
      [uploadIds |-> Arr(<<Num(2), Num(1)>>),
       context |-> Ctx(Str("why"), Str("k"), Str("i"), Str("c"), Undefined)],
      [uploadIds |-> Arr(<<Num(1)>>),
       context |-> Ctx(Str("why"), Undefined, Undefined, Undefined, Str("x"))],
      [uploadIds |-> Arr(<<>>), context |-> Undefined] }

\* bodies it does not accept
MalformedBodies ==
    { [uploadIds |-> Arr(<<Num(1), Str("2")>>), context |-> Undefined],
      [uploadIds |-> Undefined, context |-> Undefined],
      [uploadIds |-> Arr(<<Num(1)>>),
       context |-> Ctx(Num(7), Undefined, Undefined, Undefined, Undefined)],
      [uploadIds |-> Arr(<<Num(1)>>), context |-> Str("ctx")] }

Bodies == ValidBodies \cup MalformedBodies

\* z.array(z.number())
ParseUploadIds(v) ==
    /\ v.kind = "array"
    /\ \A i \in 1..Len(v.items) : v.items[i].kind = "number"

\* z.string().optional()
ParseOptionalString(v) == v.kind \in {"undefined", "string"}

\* ParseContext that does not look at the keys
ParseContext_AnyObject(v) == v.kind \in {"undefined", "object"}

\* z.object({...}).optional(): an object whose four keys parse
ParseContext(v) ==
    \/ v.kind = "undefined"
    \/ /\ v.kind = "object"
       /\ \A f \in ContextFields : ParseOptionalString(v[f])

\* a z.object that lets unknown keys through
ParsedContext_KeepsUnknown(v) == v

\* what z.object returns: unknown keys are stripped
ParsedContext(v) ==
    IF v.kind = "object" THEN [v EXCEPT !.extra = Undefined] ELSE v

\* schema.parse(req.body): ok is FALSE where parse throws
SchemaParse(body) ==
    IF ParseUploadIds(body.uploadIds) /\ ParseContext(body.context)
    THEN [ok |-> TRUE,
          data |-> [uploadIds |-> body.uploadIds.items,
                    context |-> ParsedContext(body.context)]]
    ELSE [ok |-> FALSE,
          data |-> [uploadIds |-> <<>>, context |-> Undefined]]

(***************************************************************************)
(* Job Store (DatabaseStorage)                                             *)
(***************************************************************************)
Statuses ==
    {"pending", "processing", "summarizing", "converting", "completed", "error"}

\* columns of a processing_jobs row the insert does not supply
JobDefaults == [error |-> <<>>, completedAt |-> <<>>]

\* a row in which the fields of insertJob override status and progress
NewJobRow_CallerWins(insertJob) ==
    insertJob @@ [status |-> "pending", progress |-> 0] @@ JobDefaults

\* the row createProcessingJob inserts: status and progress override insertJob
NewJobRow(insertJob) ==
    [status |-> "pending", progress |-> 0] @@ insertJob @@ JobDefaults

\* the insert assigns the serial id
createProcessingJob(table, insertJob) ==
    Append(table, [id |-> Len(table) + 1] @@ NewJobRow(insertJob))

\* getProcessingJob: the row, or nothing
getProcessingJob(table, id) ==
    IF id \in 1..Len(table) THEN <<table[id]>> ELSE <<>>

\* an update without its where clause: every row gets the columns
updateProcessingJob_AllRows(table, id, updates) ==
    [i \in 1..Len(table) |->
        [f \in DOMAIN table[i] |->
            IF f \in DOMAIN updates THEN updates[f] ELSE table[i][f]]]

\* updateProcessingJob: .set(updates).where(id): the named columns change
updateProcessingJob(table, id, updates) ==
    IF id \in 1..Len(table)
    THEN [table EXCEPT ![id] =
             [f \in DOMAIN @ |-> IF f \in DOMAIN updates THEN updates[f] ELSE @[f]]]
    ELSE table

createSummary(table, insertSummary) == Append(table, insertSummary)

\* getSummaryByProcessingJobId: the first matching row, or nothing
getSummaryByProcessingJobId(table, jobId) ==
    LET hits == SelectSeq(table, LAMBDA s : s.processingJobId = jobId)
    IN IF Len(hits) > 0 THEN <<hits[1]>> ELSE <<>>

\* getUploads: one lookup per id, in order; an id without a row is left
\* out, and so is an id whose lookup threw (positions in dropped)
getUploads(table, ids, dropped) ==
    LET found(i) == /\ ids[i] \in 1..Len(table)
                    /\ i \notin dropped
        RECURSIVE collect(_)
        collect(i) ==
            IF i > Len(ids) THEN <<>>
            ELSE IF found(i)
                 THEN <<[id |-> ids[i], filename |-> table[ids[i]]]>> \o collect(i + 1)
                 ELSE collect(i + 1)
    IN collect(1)

\* getApiKeys: the single row, or nothing
getApiKeys(table) == table

(***************************************************************************)
(* Collaborators and environment                                           *)
(***************************************************************************)
\* originalname of the files the client uploads, in upload order
FileNames == <<"a.pdf", "b.pdf", "c.pdf">>

\* the text pdf-parse finds in the stored file of an upload
FileText(id) == IF id = 1 THEN "Hello world" ELSE "content"

\* texts the Gemini model may return
Narratives == { <<"#", " ", "a", "\n", "\n", "b", "\n", "a", "b">> }

\* key pairs saved through the settings route
KeyChoices == { [gemini |-> "dbG", elevenlabs |-> "dbE"],
                [gemini |-> "dbG", elevenlabs |-> ""] }

\* process.env of deployments that set both keys, one key or none
EnvChoices ==
    { [GEMINI_API_KEY |-> "", ELEVENLABS_API_KEY |-> ""],
      [GEMINI_API_KEY |-> "envG", ELEVENLABS_API_KEY |-> "envE"],
      [GEMINI_API_KEY |-> "envG", ELEVENLABS_API_KEY |-> ""] }

\* process.env of a deployment that sets neither key: "" is an unset variable
NoEnvKeys == [GEMINI_API_KEY |-> "", ELEVENLABS_API_KEY |-> ""]

\* values a failing database or file-system call may throw
Err(message) == [isError |-> TRUE, message |-> message]

\* a thrown value that is not an Error
NonError == [isError |-> FALSE, message |-> ""]

StoreErrors == { Err("connection terminated"), Err(""), NonError }

\* `audio-${Date.now()}.mp3`
AudioFilename(t) == <<"audio-", t, ".mp3">>

\* `/audio/${audioFilename}`
AudioUrl(audioFilename) == <<"/audio/">> \o audioFilename

\* summary.audioUrl.replace('/audio/', ''): the file the audio routes read
AudioFileOf(audioUrl) ==
    IF Len(audioUrl) > 0 /\ audioUrl[1] = "/audio/"
    THEN SubSeq(audioUrl, 2, Len(audioUrl))
    ELSE audioUrl

(***************************************************************************)
(* The local state of one processDocuments call                            *)
(***************************************************************************)
InitRun ==
    [pc |-> "getJob", job |-> <<>>, uploads |-> <<>>, idx |-> 1,
     allExtractedText |-> <<>>, filesProcessed |-> 0,
     context |-> Undefined, geminiKey |-> "", elevenlabsKey |-> "",
     aiSummary |-> <<>>, audioFilename |-> <<>>, completedAt |-> <<>>,
     error |-> <<>>,
     calls |-> <<>>, catchThrew |-> FALSE, body |-> <<>>]

JobIds == 1..Len(jobs)

\* calls is the record of the collaborator calls of the run; the last
\* entry is the call awaited
Settle(calls, outcome) == [calls EXCEPT ![Len(calls)].outcome = outcome]

\* throw inside the try block: the catch handler logs and issues its update
Throw(r, e) == [r EXCEPT !.pc = "catchUpdate", !.error = <<e>>]

\* error instanceof Error ? error.message : "Unknown error occurred"
ErrorMessage(e) == IF e.isError THEN e.message ELSE "Unknown error occurred"

\* allExtractedText += `\n\n--- Document: ${filename} ---\n\n${text}`
TextSegment(upload, text) ==
    [filename |-> upload.filename, extracted |-> TRUE, text |-> text]

\* allExtractedText += `\n\n--- Document: ${filename} (Error: Could not extract content) ---\n\n`
ErrorSegment(upload) ==
    [filename |-> upload.filename, extracted |-> FALSE, text |-> ""]

\* job.uploadIds.filter(id => typeof id === 'number')
NumberIds(items) ==
    LET kept == SelectSeq(items, LAMBDA v : v.kind = "number")
    IN [i \in 1..Len(kept) |-> kept[i].n]

\* apiKeys?.gemini || process.env.GEMINI_API_KEY
ResolveGeminiKey(row, e) ==
    IF row # <<>> /\ row[1].gemini # "" THEN row[1].gemini ELSE e.GEMINI_API_KEY

\* apiKeys?.elevenlabs || process.env.ELEVENLABS_API_KEY
ResolveElevenlabsKey(row, e) ==
    IF row # <<>> /\ row[1].elevenlabs # "" THEN row[1].elevenlabs
    ELSE e.ELEVENLABS_API_KEY

\* Date.now() and new Date(): the clock never goes back
ClockReads == now..MaxClock

(***************************************************************************)
(* Routes                                                                  *)
(***************************************************************************)
textVars == <<narrative, result>>

noteVars == <<reflections, audioNotes>>

clientVars == <<view, effects, polls, handled>>

\* what no route and no run step writes
fixedVars == <<faults, textVars, noteVars, clientVars>>

\* POST /api/upload, one file: createUpload inserts a row
PostUpload(name) ==
    /\ Len(uploads) < MaxUploads
    /\ name = FileNames[Len(uploads) + 1]
    /\ uploads' = Append(uploads, name)
    /\ UNCHANGED <<apiKeys, env, jobs, summaries, files, now, run, resp, fixedVars>>

\* POST /api/settings/api-keys: saveApiKeys replaces the row
PostApiKeys(keys) ==
    /\ apiKeys # <<keys>>
    /\ apiKeys' = <<keys>>
    /\ UNCHANGED <<uploads, env, jobs, summaries, files, now, run, resp, fixedVars>>

\* the keys the GET route answers with when it finds none
DemoKeys ==
    [gemini |-> "demo-gemini-key-for-prototype",
     elevenlabs |-> "demo-elevenlabs-key-for-prototype"]

\* GET /api/settings/api-keys: with both environment keys set it stores them
\* unless they are the stored ones and answers with them; otherwise it
\* answers with the stored keys, or with the demo keys when none are stored
GetApiKeysRoute ==
    /\ LET envKeys == [gemini |-> env.GEMINI_API_KEY,
                       elevenlabs |-> env.ELEVENLABS_API_KEY]
           storedKeys == getApiKeys(apiKeys)
       IN IF envKeys.gemini # "" /\ envKeys.elevenlabs # ""
          THEN /\ apiKeys' = IF storedKeys = <<>> \/ storedKeys[1] # envKeys
                             THEN <<envKeys>> ELSE apiKeys
               /\ resp' = [status |-> 200, processingId |-> 0, keys |-> <<envKeys>>]
          ELSE /\ apiKeys' = apiKeys
               /\ resp' = [status |-> 200, processingId |-> 0,
                           keys |-> IF storedKeys = <<>> THEN <<DemoKeys>>
                                    ELSE storedKeys]
    /\ UNCHANGED <<uploads, env, jobs, summaries, files, now, run, fixedVars>>

\* a create-job route that answers only after the run's first await
ProcessRoute_AwaitsRun(body) ==
    /\ LET parsed == SchemaParse(body)
       IN /\ parsed.ok
          /\ jobs' = createProcessingJob(jobs,
                        [uploadIds |-> parsed.data.uploadIds,
                         context |-> parsed.data.context])
          /\ run' = Append(run, [InitRun EXCEPT !.body = <<body>>,
                                                !.pc = "updProcessing",
                                                !.job = <<jobs'[Len(jobs')]>>])
          /\ resp' = [status |-> 201, processingId |-> jobs'[Len(jobs')].id,
                      keys |-> <<>>]

\* POST /api/process with a body the schema accepts: the job is inserted,
\* processDocuments is called (it runs up to its first await) and 201 is sent
ProcessRoute(body) ==
    /\ LET parsed == SchemaParse(body)
       IN /\ parsed.ok
          /\ jobs' = createProcessingJob(jobs,
                        [uploadIds |-> parsed.data.uploadIds,
                         context |-> parsed.data.context])
          /\ run' = Append(run, [InitRun EXCEPT !.body = <<body>>])
          /\ resp' = [status |-> 201, processingId |-> jobs'[Len(jobs')].id,
                      keys |-> <<>>]

\* the create-job request of a caller other than the processing view
PostProcessAccepted(body) ==
    /\ Len(jobs) < MaxJobs
    /\ ProcessRoute(body)
    /\ UNCHANGED <<uploads, apiKeys, env, summaries, files, now, fixedVars>>

\* POST /api/process with a body schema.parse throws on: 400
PostProcessRejected(body) ==
    /\ ~SchemaParse(body).ok
    /\ resp' = [status |-> 400, processingId |-> 0, keys |-> <<>>]
    /\ UNCHANGED <<uploads, apiKeys, env, jobs, summaries, files, now, run, fixedVars>>

(***************************************************************************)
(* processDocuments, one action per await                                  *)
(***************************************************************************)
storeFrame == <<uploads, apiKeys, env, resp>>

runFrame == <<storeFrame, fixedVars>>

SetRun(j, r) == run' = [run EXCEPT ![j] = r]

\* await storage.getProcessingJob(processingJobId)
GetJob(j) ==
    /\ run[j].pc = "getJob"
    /\ LET job == getProcessingJob(jobs, j)
       IN IF job = <<>>
          THEN SetRun(j, Throw(run[j], Err("Processing job not found")))
          ELSE SetRun(j, [run[j] EXCEPT !.pc = "updProcessing", !.job = job])
    /\ UNCHANGED <<jobs, summaries, files, now, runFrame>>

\* UpdProcessing writing the status of the next stage
UpdProcessing_WrongStatus(j) ==
    /\ run[j].pc = "updProcessing"
    /\ jobs' = updateProcessingJob(jobs, j,
                   [status |-> "summarizing", progress |-> 20])
    /\ SetRun(j, [run[j] EXCEPT !.pc = "getUploads"])
    /\ UNCHANGED <<summaries, files, now, runFrame>>

\* await storage.updateProcessingJob(id, {status: "processing", progress: 20})
UpdProcessing(j) ==
    /\ run[j].pc = "updProcessing"
    /\ jobs' = updateProcessingJob(jobs, j,
                   [status |-> "processing", progress |-> 20])
    /\ SetRun(j, [run[j] EXCEPT !.pc = "getUploads"])
    /\ UNCHANGED <<summaries, files, now, runFrame>>

\* AfterGetUploads without the check for an empty result
AfterGetUploads_NoCheck(r, found) ==
    IF Len(found) = 0
    THEN [r EXCEPT !.pc = "updSummarizing"]
    ELSE [r EXCEPT !.pc = "extract", !.uploads = found, !.idx = 1]

\* what follows await storage.getUploads(uploadIds)
AfterGetUploads(r, found) ==
    IF Len(found) = 0
    THEN Throw(r, Err("No uploads found"))
    ELSE [r EXCEPT !.pc = "extract", !.uploads = found, !.idx = 1]

\* await storage.getUploads(uploadIds), every lookup answered
GetUploads(j) ==
    /\ run[j].pc = "getUploads"
    /\ SetRun(j, AfterGetUploads(run[j],
                    getUploads(uploads, NumberIds(run[j].job[1].uploadIds), {})))
    /\ UNCHANGED <<jobs, summaries, files, now, runFrame>>

\* AfterExtract where one failed document fails the run
AfterExtract_AnyFailureFatal(r) ==
    IF r.idx <= Len(r.uploads) THEN r
    ELSE IF r.filesProcessed < Len(r.uploads)
         THEN Throw(r, Err("Failed to extract text from any documents."))
         ELSE [r EXCEPT !.pc = "updSummarizing"]

\* AfterExtract without the filesProcessed check
AfterExtract_NoCheck(r) ==
    IF r.idx <= Len(r.uploads) THEN r
    ELSE [r EXCEPT !.pc = "updSummarizing"]

\* AfterExtract that leaves the loop after the first document
AfterExtract_LeavesEarly(r) ==
    IF r.filesProcessed = 0 /\ r.idx > Len(r.uploads)
    THEN Throw(r, Err("Failed to extract text from any documents."))
    ELSE IF r.filesProcessed = 0 THEN r
    ELSE [r EXCEPT !.pc = "updSummarizing"]

\* the end of one iteration of the extraction loop: the next document, or
\* the filesProcessed check and the update to summarizing
AfterExtract(r) ==
    IF r.idx <= Len(r.uploads) THEN r
    ELSE IF r.filesProcessed = 0 /\ Len(r.uploads) > 0
         THEN Throw(r, Err("Failed to extract text from any documents."))
         ELSE [r EXCEPT !.pc = "updSummarizing"]

\* ExtractReturns that puts the new segment in front of the text
ExtractReturns_Prepends(j) ==
    /\ run[j].pc = "extract"
    /\ LET r == run[j]
           upload == r.uploads[r.idx]
       IN SetRun(j, AfterExtract(
              [r EXCEPT !.allExtractedText =
                            <<TextSegment(upload, FileText(upload.id))>> \o @,
                        !.filesProcessed = @ + 1,
                        !.idx = @ + 1,
                        !.calls = Append(@, [fn |-> "extractTextFromPDF",
                                             id |-> upload.id,
                                             outcome |-> "returned"])]))
    /\ UNCHANGED <<jobs, summaries, files, now, runFrame>>

\* await extractTextFromPDF(upload.filepath) returns the text
ExtractReturns(j) ==
    /\ run[j].pc = "extract"
    /\ LET r == run[j]
           upload == r.uploads[r.idx]
       IN SetRun(j, AfterExtract(
              [r EXCEPT !.allExtractedText =
                            Append(@, TextSegment(upload, FileText(upload.id))),
                        !.filesProcessed = @ + 1,
                        !.idx = @ + 1,
                        !.calls = Append(@, [fn |-> "extractTextFromPDF",
                                             id |-> upload.id,
                                             outcome |-> "returned"])]))
    /\ UNCHANGED <<jobs, summaries, files, now, runFrame>>

\* an inner catch that also records the extraction error in the job row
ExtractThrows_RecordsError(j) ==
    /\ run[j].pc = "extract"
    /\ LET r == run[j]
           upload == r.uploads[r.idx]
       IN SetRun(j, AfterExtract(
              [r EXCEPT !.allExtractedText = Append(@, ErrorSegment(upload)),
                        !.idx = @ + 1,
                        !.calls = Append(@, [fn |-> "extractTextFromPDF",
                                             id |-> upload.id,
                                             outcome |-> "threw"])]))
    /\ jobs' = updateProcessingJob(jobs, j, [error |-> <<"Could not extract content">>])
    /\ UNCHANGED <<summaries, files, now, runFrame>>

\* await extractTextFromPDF(upload.filepath) throws: the inner catch
ExtractThrows(j) ==
    /\ run[j].pc = "extract"
    /\ LET r == run[j]
           upload == r.uploads[r.idx]
       IN SetRun(j, AfterExtract(
              [r EXCEPT !.allExtractedText = Append(@, ErrorSegment(upload)),
                        !.idx = @ + 1,
                        !.calls = Append(@, [fn |-> "extractTextFromPDF",
                                             id |-> upload.id,
                                             outcome |-> "threw"])]))
    /\ UNCHANGED <<jobs, summaries, files, now, runFrame>>

\* UpdSummarizing whose update leaves the progress out
UpdSummarizing_KeepsProgress(j) ==
    /\ run[j].pc = "updSummarizing"
    /\ jobs' = updateProcessingJob(jobs, j, [status |-> "summarizing"])
    /\ SetRun(j, [run[j] EXCEPT !.pc = "getApiKeys",
                                !.context = run[j].job[1].context])
    /\ UNCHANGED <<summaries, files, now, runFrame>>

\* await storage.updateProcessingJob(id, {status: "summarizing", progress: 40})
UpdSummarizing(j) ==
    /\ run[j].pc = "updSummarizing"
    /\ jobs' = updateProcessingJob(jobs, j,
                   [status |-> "summarizing", progress |-> 40])
    /\ SetRun(j, [run[j] EXCEPT !.pc = "getApiKeys",
                                !.context = run[j].job[1].context])
    /\ UNCHANGED <<summaries, files, now, runFrame>>

\* GetApiKeys that waits while a collaborator call of another run is pending
GetApiKeys_OneAtATime(j) ==
    /\ run[j].pc = "getApiKeys"
    /\ \A k \in JobIds \ {j} : run[k].pc \notin {"extract", "generateSummary", "convert"}
    /\ LET r == run[j]
           row == getApiKeys(apiKeys)
           geminiKey == ResolveGeminiKey(row, env)
           elevenlabsKey == ResolveElevenlabsKey(row, env)
       IN IF geminiKey = ""
          THEN SetRun(j, Throw(r, Err("Gemini API key is not available")))
          ELSE SetRun(j, [r EXCEPT !.pc = "generateSummary",
                                   !.geminiKey = geminiKey,
                                   !.elevenlabsKey = elevenlabsKey,
                                   !.calls = Append(@,
                                       [fn |-> "generateSummary",
                                        documentText |-> r.allExtractedText,
                                        userContext |-> r.context,
                                        apiKey |-> geminiKey,
                                        outcome |-> "pending"])])
    /\ UNCHANGED <<jobs, summaries, files, now, runFrame>>

\* await storage.getApiKeys(), the key resolution and the call of generateSummary
GetApiKeys(j) ==
    /\ run[j].pc = "getApiKeys"
    /\ LET r == run[j]
           row == getApiKeys(apiKeys)
           geminiKey == ResolveGeminiKey(row, env)
           elevenlabsKey == ResolveElevenlabsKey(row, env)
       IN IF geminiKey = ""
          THEN SetRun(j, Throw(r, Err("Gemini API key is not available")))
          ELSE SetRun(j, [r EXCEPT !.pc = "generateSummary",
                                   !.geminiKey = geminiKey,
                                   !.elevenlabsKey = elevenlabsKey,
                                   !.calls = Append(@,
                                       [fn |-> "generateSummary",
                                        documentText |-> r.allExtractedText,
                                        userContext |-> r.context,
                                        apiKey |-> geminiKey,
                                        outcome |-> "pending"])])
    /\ UNCHANGED <<jobs, summaries, files, now, runFrame>>

\* await generateSummary(...) returns
GenerateSummaryReturns(j, text) ==
    /\ run[j].pc = "generateSummary"
    /\ SetRun(j, [run[j] EXCEPT !.pc = "updConverting",
                                !.aiSummary = <<SummaryResult(text)>>,
                                !.calls = Settle(@, "returned")])
    /\ UNCHANGED <<jobs, summaries, files, now, runFrame>>

\* GenerateSummaryThrows going on with a stand-in summary
GenerateSummaryThrows_Fallback(j) ==
    /\ run[j].pc = "generateSummary"
    /\ SetRun(j, [run[j] EXCEPT !.pc = "updConverting",
                                !.aiSummary = <<SummaryResult(<<>>)>>,
                                !.calls = Settle(@, "threw")])
    /\ UNCHANGED <<jobs, summaries, files, now, runFrame>>

\* await generateSummary(...) throws: rethrown as a new Error
GenerateSummaryThrows(j) ==
    /\ run[j].pc = "generateSummary"
    /\ SetRun(j, Throw([run[j] EXCEPT !.calls = Settle(@, "threw")],
                        Err("Failed to generate summary with Gemini")))
    /\ UNCHANGED <<jobs, summaries, files, now, runFrame>>

\* await storage.updateProcessingJob(id, {status: "converting", progress: 70}),
\* then the file name from Date.now() and the call of convertTextToSpeech or
\* of fs.writeFile
UpdConverting(j, t) ==
    /\ run[j].pc = "updConverting"
    /\ t \in ClockReads
    /\ jobs' = updateProcessingJob(jobs, j,
                   [status |-> "converting", progress |-> 70])
    /\ now' = t
    /\ LET r == run[j]
       IN IF r.elevenlabsKey # ""
          THEN SetRun(j, [r EXCEPT !.pc = "convert",
                                   !.audioFilename = AudioFilename(t),
                                   !.calls = Append(@,
                                       [fn |-> "convertTextToSpeech",
                                        text |-> r.aiSummary[1].text,
                                        outputPath |-> AudioFilename(t),
                                        apiKey |-> r.elevenlabsKey,
                                        outcome |-> "pending"])])
          ELSE SetRun(j, [r EXCEPT !.pc = "writeFile",
                                   !.audioFilename = AudioFilename(t)])
    /\ UNCHANGED <<summaries, files, runFrame>>

\* await convertTextToSpeech(...) returns: the audio stream is in the file
ConvertReturns(j) ==
    /\ run[j].pc = "convert"
    /\ files' = (run[j].audioFilename :> [kind |-> "audio", job |-> j]) @@ files
    /\ SetRun(j, [run[j] EXCEPT !.pc = "createSummary",
                                !.calls = Settle(@, "returned")])
    /\ UNCHANGED <<jobs, summaries, now, runFrame>>

\* ConvertThrows without the inner catch
ConvertThrows_Fatal(j) ==
    /\ run[j].pc = "convert"
    /\ SetRun(j, Throw([run[j] EXCEPT !.calls = Settle(@, "threw")],
                        Err("Failed to convert text to speech")))
    /\ UNCHANGED <<jobs, summaries, files, now, runFrame>>

\* await convertTextToSpeech(...) throws: the fallback writes an empty file
ConvertThrows(j) ==
    /\ run[j].pc = "convert"
    /\ SetRun(j, [run[j] EXCEPT !.pc = "writeFile",
                                !.calls = Settle(@, "threw")])
    /\ UNCHANGED <<jobs, summaries, files, now, runFrame>>

\* await fs.writeFile(audioPath, Buffer.from([0]))
WriteFile(j) ==
    /\ run[j].pc = "writeFile"
    /\ files' = (run[j].audioFilename :> [kind |-> "empty", job |-> j]) @@ files
    /\ SetRun(j, [run[j] EXCEPT !.pc = "createSummary"])
    /\ UNCHANGED <<jobs, summaries, now, runFrame>>

\* CreateSummary that inserts the row twice
CreateSummary_Twice(j) ==
    /\ run[j].pc = "createSummary"
    /\ LET r == run[j]
           row == [id |-> Len(summaries) + 1,
                   title |-> r.aiSummary[1].title,
                   description |-> r.aiSummary[1].description,
                   text |-> r.aiSummary[1].text,
                   audioUrl |-> AudioUrl(r.audioFilename),
                   processingJobId |-> r.job[1].id]
       IN summaries' = createSummary(createSummary(summaries, row),
                                     [row EXCEPT !.id = Len(summaries) + 2])
    /\ SetRun(j, [run[j] EXCEPT !.pc = "updCompleted", !.completedAt = <<now>>])
    /\ UNCHANGED <<jobs, files, now, runFrame>>

\* CreateSummary that inserts no row
CreateSummary_NoInsert(j) ==
    /\ run[j].pc = "createSummary"
    /\ SetRun(j, [run[j] EXCEPT !.pc = "updCompleted", !.completedAt = <<now>>])
    /\ UNCHANGED <<jobs, summaries, files, now, runFrame>>

\* await storage.createSummary({...}), then the call of the last update,
\* whose completedAt is new Date() (taken as the instant of the last clock
\* reading: no step depends on its value)
CreateSummary(j) ==
    /\ run[j].pc = "createSummary"
    /\ LET r == run[j]
       IN summaries' = createSummary(summaries,
              [id |-> Len(summaries) + 1,
               title |-> r.aiSummary[1].title,
               description |-> r.aiSummary[1].description,
               text |-> r.aiSummary[1].text,
               audioUrl |-> AudioUrl(r.audioFilename),
               processingJobId |-> r.job[1].id])
    /\ SetRun(j, [run[j] EXCEPT !.pc = "updCompleted", !.completedAt = <<now>>])
    /\ UNCHANGED <<jobs, files, now, runFrame>>

\* UpdCompleted followed by a statement that throws
UpdCompleted_ThenThrows(j) ==
    /\ run[j].pc = "updCompleted"
    /\ jobs' = updateProcessingJob(jobs, j,
                   [status |-> "completed", progress |-> 100,
                    completedAt |-> run[j].completedAt])
    /\ SetRun(j, Throw(run[j], Err("after completion")))
    /\ UNCHANGED <<summaries, files, now, runFrame>>

\* UpdCompleted whose update leaves completedAt out
UpdCompleted_NoStamp(j) ==
    /\ run[j].pc = "updCompleted"
    /\ jobs' = updateProcessingJob(jobs, j,
                   [status |-> "completed", progress |-> 100])
    /\ SetRun(j, [run[j] EXCEPT !.pc = "resolved"])
    /\ UNCHANGED <<summaries, files, now, runFrame>>

\* await storage.updateProcessingJob(id, {status: "completed", progress: 100,
\* completedAt}), then return createdSummary
UpdCompleted(j) ==
    /\ run[j].pc = "updCompleted"
    /\ jobs' = updateProcessingJob(jobs, j,
                   [status |-> "completed", progress |-> 100,
                    completedAt |-> run[j].completedAt])
    /\ SetRun(j, [run[j] EXCEPT !.pc = "resolved"])
    /\ UNCHANGED <<summaries, files, now, runFrame>>

\* CatchUpdate that records the message but leaves the status
CatchUpdate_KeepsStatus(j) ==
    /\ run[j].pc = "catchUpdate"
    /\ jobs' = updateProcessingJob(jobs, j,
                   [error |-> <<ErrorMessage(run[j].error[1])>>])
    /\ SetRun(j, [run[j] EXCEPT !.pc = "rejected"])
    /\ UNCHANGED <<summaries, files, now, runFrame>>

\* CatchUpdate that also sets the progress back to 0
CatchUpdate_ResetsProgress(j) ==
    /\ run[j].pc = "catchUpdate"
    /\ jobs' = updateProcessingJob(jobs, j,
                   [status |-> "error", progress |-> 0,
                    error |-> <<ErrorMessage(run[j].error[1])>>])
    /\ SetRun(j, [run[j] EXCEPT !.pc = "rejected"])
    /\ UNCHANGED <<summaries, files, now, runFrame>>

\* the catch handler: await storage.updateProcessingJob(id, {status: "error",
\* error: ...}), then throw error
CatchUpdate(j) ==
    /\ run[j].pc = "catchUpdate"
    /\ jobs' = updateProcessingJob(jobs, j,
                   [status |-> "error", error |-> <<ErrorMessage(run[j].error[1])>>])
    /\ SetRun(j, [run[j] EXCEPT !.pc = "rejected"])
    /\ UNCHANGED <<summaries, files, now, runFrame>>

(***************************************************************************)
(* Failing database and file-system calls                                  *)
(***************************************************************************)
\* the awaits of the try block that are database or file-system calls
\* (getUploads catches the errors of its lookups itself)
StoreAwaits ==
    {"getJob", "updProcessing", "updSummarizing", "getApiKeys",
     "updConverting", "writeFile", "createSummary", "updCompleted"}

\* one of these awaits throws: nothing is written, the catch handler runs
StoreThrows(j, e) ==
    /\ faults < MaxFaults
    /\ run[j].pc \in StoreAwaits
    /\ SetRun(j, Throw(run[j], e))
    /\ faults' = faults + 1
    /\ UNCHANGED <<jobs, summaries, files, now, storeFrame, textVars, noteVars,
                   clientVars>>

\* the update of the catch handler throws: the status stays, the call
\* rejects (run.error keeps what the try block threw)
CatchUpdateThrows(j) ==
    /\ faults < MaxFaults
    /\ run[j].pc = "catchUpdate"
    /\ SetRun(j, [run[j] EXCEPT !.pc = "rejected", !.catchThrew = TRUE])
    /\ faults' = faults + 1
    /\ UNCHANGED <<jobs, summaries, files, now, storeFrame, textVars, noteVars,
                   clientVars>>

\* getUploads with lookups that throw: those ids are left out
GetUploadsDropping(j, dropped) ==
    /\ faults < MaxFaults
    /\ run[j].pc = "getUploads"
    /\ dropped # {}
    /\ dropped \subseteq 1..Len(run[j].job[1].uploadIds)
    /\ SetRun(j, AfterGetUploads(run[j],
                    getUploads(uploads, NumberIds(run[j].job[1].uploadIds), dropped)))
    /\ faults' = faults + 1
    /\ UNCHANGED <<jobs, summaries, files, now, storeFrame, textVars, noteVars,
                   clientVars>>

\* POST /api/process where createProcessingJob throws: 400, nothing inserted
PostProcessStoreThrows(body) ==
    /\ SchemaParse(body).ok
    /\ resp' = [status |-> 400, processingId |-> 0, keys |-> <<>>]
    /\ UNCHANGED <<uploads, apiKeys, env, jobs, summaries, files, now, run, fixedVars>>

(***************************************************************************)
(* GET /api/process/:id/status                                             *)
(***************************************************************************)
\* if (job.error): null and the empty string are falsy
Truthy(optional) == optional # <<>> /\ optional[1] # ""

\* the fields of the summary the route copies into the response
SummaryFields(summary) ==
    [id |-> summary.id, title |-> summary.title,
     description |-> summary.description, text |-> summary.text,
     audioUrl |-> summary.audioUrl]

\* res.json(response): status and progress, the summary when one was
\* found, the error when it is truthy
StatusResponse(job, summary) ==
    [ok |-> TRUE, status |-> job.status, progress |-> job.progress,
     summary |-> IF summary # <<>> THEN <<SummaryFields(summary[1])>> ELSE <<>>,
     error |-> IF Truthy(job.error) THEN job.error ELSE <<>>]

\* a 404 or 500 answer, or no answer at all: getProcessingStatus throws
FailedResponse ==
    [ok |-> FALSE, status |-> "", progress |-> 0, summary |-> <<>>,
     error |-> <<>>]

(***************************************************************************)
(* The processing view (client/src/components/processing-section.tsx)      *)
(***************************************************************************)
\* uploadedFiles of the session
UploadedFiles == <<FileNames[1]>>

UnknownErrorMessage == "An unknown error occurred during processing."

StatusFailedMessage == "Failed to get processing status. Please try again."

ProcessFailedMessage ==
    "Failed to process documents. Please check your API keys and try again."

\* no processing view is rendered
NoView ==
    [mounted |-> FALSE, processingId |-> <<>>, status |-> "", progress |-> 0,
     pending |-> "none", submitted |-> Undefined]

\* what the context form hands to handleContextSubmit, or nothing when the
\* user skips the form
FormContexts ==
    {Undefined, Ctx(Str("why"), Str("k"), Str("i"), Str("c"), Undefined)}

\* useState initial values; pending is the commit React has scheduled and
\* submitted the argument Home's startProcessing was called with
MountedView(context) ==
    [mounted |-> TRUE, processingId |-> <<>>,
     status |-> "Uploading Documents...", progress |-> 0, pending |-> "none",
     submitted |-> context]

\* what the user sees
Displayed(v) == <<v.status, v.progress>>

\* a run of the effect: its closure (isMounted, pollingInterval, the
\* processingId of the render) and where startProcessing is waiting
NewEffect(processingId) ==
    [isMounted |-> TRUE, processingId |-> processingId,
     pc |-> IF processingId = <<>> THEN "uploading" ELSE "idle",
     interval |-> IF processingId = <<>> THEN "none" ELSE "active",
     uploadIds |-> <<>>]

\* the synchronous part of startProcessing: without a processingId it sets
\* the upload texts and calls uploadFiles, with one it calls setInterval
RunEffect(v) ==
    IF v.processingId = <<>>
    THEN [v EXCEPT !.status = "Uploading Documents...", !.progress = 10]
    ELSE v

\* a cleanup that sets isMounted but leaves the interval running
Cleanup_KeepsInterval(es) ==
    [e \in DOMAIN es |->
        IF es[e].isMounted THEN [es[e] EXCEPT !.isMounted = FALSE] ELSE es[e]]

\* the cleanup function of the effect run that is live
Cleanup(es) ==
    [e \in DOMAIN es |->
        IF es[e].isMounted
        THEN [es[e] EXCEPT !.isMounted = FALSE,
                           !.interval = IF @ = "active" THEN "cleared" ELSE @]
        ELSE es[e]]

\* a clearInterval that clears nothing
ClearInterval_Noop(es, e) == es

\* clearInterval(pollingInterval) in the closure of effect run e
ClearInterval(es, e) ==
    [es EXCEPT ![e].interval = IF @ = "active" THEN "cleared" ELSE @]

\* the handlers home.tsx passes: both leave the Analyze step, which React
\* commits later by unmounting the view
Schedule(v, what) ==
    [v EXCEPT !.pending = IF @ = "unmount" THEN @ ELSE what]

\* an onError call that always passes the generic text
OnError_Generic(message, p) ==
    [handler |-> "onError", error |-> <<UnknownErrorMessage>>,
     summary |-> <<>>, poll |-> p]

OnError(message, p) ==
    [handler |-> "onError", error |-> <<message>>, summary |-> <<>>, poll |-> p]

OnProcessingComplete(summary, p) ==
    [handler |-> "onProcessingComplete", error |-> <<>>,
     summary |-> <<summary>>, poll |-> p]

clientFrame ==
    <<apiKeys, env, summaries, files, now, faults, textVars, noteVars>>

\* uploadFiles returns: POST /api/upload has inserted the rows
UploadReturns(e) ==
    /\ effects[e].pc = "uploading"
    /\ Len(uploads) + Len(UploadedFiles) <= MaxUploads
    /\ uploads' = uploads \o UploadedFiles
    /\ LET ids == [i \in 1..Len(UploadedFiles) |-> Len(uploads) + i]
       IN IF effects[e].isMounted
          THEN /\ effects' = [effects EXCEPT ![e].pc = "creating",
                                             ![e].uploadIds = ids]
               /\ view' = [view EXCEPT !.status = "Extracting Text...",
                                       !.progress = 30]
          ELSE /\ effects' = [effects EXCEPT ![e].pc = "idle"]
               /\ view' = view
    /\ UNCHANGED <<jobs, run, resp, polls, handled, clientFrame>>

\* processDocuments(uploadIds) returns: POST /api/process has created the job
CreateReturns(e) ==
    /\ effects[e].pc = "creating"
    /\ Len(jobs) < MaxJobs
    /\ ProcessRoute([uploadIds |->
                        Arr([i \in 1..Len(effects[e].uploadIds) |->
                                Num(effects[e].uploadIds[i])]),
                     context |-> Undefined])
    /\ effects' = [effects EXCEPT ![e].pc = "idle"]
    /\ IF effects[e].isMounted
       THEN view' = Schedule([view EXCEPT !.processingId = <<resp'.processingId>>,
                                          !.progress = 40], "rerun")
       ELSE view' = view
    /\ UNCHANGED <<uploads, polls, handled, clientFrame>>

\* uploadFiles or processDocuments throws: the outer catch
RequestFails(e) ==
    /\ effects[e].pc \in {"uploading", "creating"}
    /\ effects' = [effects EXCEPT ![e].pc = "idle"]
    /\ IF effects[e].isMounted
       THEN /\ handled' = Append(handled, OnError(ProcessFailedMessage, 0))
            /\ view' = Schedule(view, "unmount")
       ELSE UNCHANGED <<handled, view>>
    /\ UNCHANGED <<uploads, jobs, run, resp, polls, clientFrame>>

\* the interval of effect run e fires: getProcessingStatus sends a request
Tick(e) ==
    /\ effects[e].interval = "active"
    /\ Len(polls) < MaxPolls
    /\ polls' = Append(polls, [effect |-> e, id |-> effects[e].processingId[1],
                               stage |-> "sent", job |-> <<>>,
                               response |-> <<>>])
    /\ UNCHANGED <<uploads, jobs, run, resp, view, effects, handled, clientFrame>>

\* a status route that writes the row it reads
GetStatusJob_Touches(p) ==
    /\ polls[p].stage = "sent"
    /\ polls[p].id \in JobIds
    /\ jobs' = updateProcessingJob(jobs, polls[p].id, [completedAt |-> <<now>>])
    /\ polls' = [polls EXCEPT ![p].stage = "responded", ![p].job = <<jobs[polls[p].id]>>,
                              ![p].response = <<StatusResponse(jobs[polls[p].id], <<>>)>>]
    /\ UNCHANGED <<uploads, run, resp, view, effects, handled, clientFrame>>

\* the status route up to its second await: getProcessingJob has returned
GetStatusJob(p) ==
    /\ polls[p].stage = "sent"
    /\ LET job == getProcessingJob(jobs, polls[p].id)
       IN polls' = [polls EXCEPT ![p] =
             IF job = <<>>
             THEN [@ EXCEPT !.stage = "responded", !.response = <<FailedResponse>>]
             ELSE IF job[1].status = "completed"
             THEN [@ EXCEPT !.stage = "summary", !.job = job]
             ELSE [@ EXCEPT !.stage = "responded", !.job = job,
                            !.response = <<StatusResponse(job[1], <<>>)>>]]
    /\ UNCHANGED <<uploads, jobs, run, resp, view, effects, handled, clientFrame>>

\* the second step of the status route without the lookup
GetStatusSummary_NoLookup(p) ==
    /\ polls[p].stage = "summary"
    /\ polls' = [polls EXCEPT ![p].stage = "responded",
                              ![p].response = <<StatusResponse(polls[p].job[1], <<>>)>>]
    /\ UNCHANGED <<uploads, jobs, run, resp, view, effects, handled, clientFrame>>

\* the status route of a completed job: getSummaryByProcessingJobId has
\* returned and the response is sent
GetStatusSummary(p) ==
    /\ polls[p].stage = "summary"
    /\ LET job == polls[p].job[1]
           summary == getSummaryByProcessingJobId(summaries, job.id)
       IN polls' = [polls EXCEPT ![p].stage = "responded",
                                 ![p].response = <<StatusResponse(job, summary)>>]
    /\ UNCHANGED <<uploads, jobs, run, resp, view, effects, handled, clientFrame>>

\* the request fails: a storage call of the route throws (500) or the
\* transport fails
StatusFails(p) ==
    /\ polls[p].stage \in {"sent", "summary"}
    /\ polls' = [polls EXCEPT ![p] =
          [@ EXCEPT !.stage = "responded", !.response = <<FailedResponse>>]]
    /\ UNCHANGED <<uploads, jobs, run, resp, view, effects, handled, clientFrame>>

\* the texts and the bar the switch sets for a status
StageDisplay(v, status) ==
    CASE status \in {"extracting", "processing"} ->
            [v EXCEPT !.status = "Extracting Text...", !.progress = 40]
      [] status = "summarizing" ->
            [v EXCEPT !.status = "Generating Summary...", !.progress = 60]
      [] status = "converting" ->
            [v EXCEPT !.status = "Creating Audio...", !.progress = 80]
      [] status = "completed" -> [v EXCEPT !.progress = 100]
      [] OTHER -> v

\* a callback whose catch swallows the failure and lets the interval run
Deliver_RetriesAfterFailure(p) ==
    /\ polls[p].stage = "responded"
    /\ polls' = [polls EXCEPT ![p].stage = "done"]
    /\ LET e == polls[p].effect
           r == polls[p].response[1]
           stop == ClearInterval(effects, e)
       IN IF ~effects[e].isMounted
          THEN UNCHANGED <<view, effects, handled>>
          ELSE IF ~r.ok
          THEN UNCHANGED <<view, effects, handled>>
          ELSE IF r.status = "completed" /\ r.summary # <<>>
          THEN /\ effects' = stop
               /\ handled' = Append(handled, OnProcessingComplete(r.summary[1], p))
               /\ view' = Schedule(StageDisplay(view, r.status), "unmount")
          ELSE IF r.status = "error"
          THEN /\ effects' = stop
               /\ handled' = Append(handled,
                     OnError(IF Truthy(r.error) THEN r.error[1]
                             ELSE UnknownErrorMessage, p))
               /\ view' = Schedule(view, "unmount")
          ELSE /\ view' = StageDisplay(view, r.status)
               /\ UNCHANGED <<effects, handled>>
    /\ UNCHANGED <<uploads, jobs, run, resp, clientFrame>>

\* the awaited getProcessingStatus settles in the interval callback of the
\* effect run that sent the request: the switch, or the catch
Deliver(p) ==
    /\ polls[p].stage = "responded"
    /\ polls' = [polls EXCEPT ![p].stage = "done"]
    /\ LET e == polls[p].effect
           r == polls[p].response[1]
           stop == ClearInterval(effects, e)
       IN IF ~effects[e].isMounted
          THEN UNCHANGED <<view, effects, handled>>
          ELSE IF ~r.ok
          THEN /\ effects' = stop
               /\ handled' = Append(handled, OnError(StatusFailedMessage, p))
               /\ view' = Schedule(view, "unmount")
          ELSE IF r.status = "completed" /\ r.summary # <<>>
          THEN /\ effects' = stop
               /\ handled' = Append(handled, OnProcessingComplete(r.summary[1], p))
               /\ view' = Schedule(StageDisplay(view, r.status), "unmount")
          ELSE IF r.status = "error"
          THEN /\ effects' = stop
               /\ handled' = Append(handled,
                     OnError(IF Truthy(r.error) THEN r.error[1]
                             ELSE UnknownErrorMessage, p))
               /\ view' = Schedule(view, "unmount")
          ELSE /\ view' = StageDisplay(view, r.status)
               /\ UNCHANGED <<effects, handled>>
    /\ UNCHANGED <<uploads, jobs, run, resp, clientFrame>>

\* React commits what a state update scheduled: the cleanup of the live
\* effect run, then either the unmount or the effect run of the new render
Commit ==
    /\ view.mounted
    /\ view.pending # "none"
    /\ IF view.pending = "unmount"
       THEN /\ effects' = Cleanup(effects)
            /\ view' = [view EXCEPT !.mounted = FALSE, !.pending = "none"]
       ELSE /\ effects' = Append(Cleanup(effects), NewEffect(view.processingId))
            /\ view' = RunEffect([view EXCEPT !.pending = "none"])
    /\ UNCHANGED <<uploads, jobs, run, resp, polls, handled, clientFrame>>

\* Home renders again for a reason of its own (a modal opens, a toast
\* shows): its inline handlers are new functions, so the effect runs again
Rerender ==
    /\ view.mounted
    /\ view.pending = "none"
    /\ Len(effects) < MaxEffects
    /\ effects' = Append(Cleanup(effects), NewEffect(view.processingId))
    /\ view' = RunEffect(view)
    /\ UNCHANGED <<uploads, jobs, run, resp, polls, handled, clientFrame>>

(***************************************************************************)
(* Specifications                                                          *)
(***************************************************************************)
NoResponse == [status |-> 0, processingId |-> 0, keys |-> <<>>]

Init ==
    /\ uploads = <<>>
    /\ apiKeys = <<>>
    /\ env = NoEnvKeys
    /\ jobs = <<>>
    /\ summaries = <<>>
    /\ files = <<>>
    /\ now = 1
    /\ run = <<>>
    /\ resp = NoResponse
    /\ faults = 0
    /\ narrative = <<>>
    /\ result = <<>>
    /\ view = NoView
    /\ effects = <<>>
    /\ polls = <<>>
    /\ handled = <<>>
    /\ reflections = <<>>
    /\ audioNotes = <<>>

RunStep(j) ==
    \/ GetJob(j)
    \/ UpdProcessing(j)
    \/ GetUploads(j)
    \/ ExtractReturns(j)
    \/ ExtractThrows(j)
    \/ UpdSummarizing(j)
    \/ GetApiKeys(j)
    \/ \E text \in Narratives : GenerateSummaryReturns(j, text)
    \/ GenerateSummaryThrows(j)
    \/ \E t \in 1..MaxClock : UpdConverting(j, t)
    \/ ConvertReturns(j)
    \/ ConvertThrows(j)
    \/ WriteFile(j)
    \/ CreateSummary(j)
    \/ UpdCompleted(j)
    \/ CatchUpdate(j)

\* collaborators may fail, the database and the file system answer
Next ==
    \/ \E name \in {FileNames[i] : i \in DOMAIN FileNames} : PostUpload(name)
    \/ \E keys \in KeyChoices : PostApiKeys(keys)
    \/ \E body \in Bodies : PostProcessAccepted(body)
    \/ \E body \in Bodies : PostProcessRejected(body)
    \/ \E j \in JobIds : RunStep(j)

Spec == Init /\ [][Next]_vars

StoreFault ==
    \/ \E j \in JobIds, e \in StoreErrors : StoreThrows(j, e)
    \/ \E j \in JobIds : CatchUpdateThrows(j)
    \/ \E j \in JobIds : \E dropped \in SUBSET (1..MaxUploads) : GetUploadsDropping(j, dropped)
    \/ \E body \in Bodies : PostProcessStoreThrows(body)

\* database and file-system calls may fail too
NextStoreFaults == Next \/ StoreFault

SpecStoreFaults == Init /\ [][NextStoreFaults]_vars

(***************************************************************************)
(* One analysis session of the client against the server                   *)
(***************************************************************************)
\* Home lets the user start only with both keys saved; the context form was
\* submitted or skipped, the view has just been mounted and its effect has
\* run once
InitSession(contexts) ==
    /\ uploads = <<>>
    /\ apiKeys = <<[gemini |-> "dbG", elevenlabs |-> "dbE"]>>
    /\ env = NoEnvKeys
    /\ jobs = <<>>
    /\ summaries = <<>>
    /\ files = <<>>
    /\ now = 1
    /\ run = <<>>
    /\ resp = NoResponse
    /\ faults = 0
    /\ narrative = <<>>
    /\ result = <<>>
    /\ \E context \in contexts : view = RunEffect(MountedView(context))
    /\ effects = <<NewEffect(<<>>)>>
    /\ polls = <<>>
    /\ handled = <<>>
    /\ reflections = <<>>
    /\ audioNotes = <<>>

InitClient == InitSession(FormContexts)

\* the session of a user who skipped the context form
InitClientFaults == InitSession({Undefined})

EffectIds == 1..Len(effects)

PollIds == 1..Len(polls)

ClientStep ==
    \/ \E e \in EffectIds : UploadReturns(e)
    \/ \E e \in EffectIds : CreateReturns(e)
    \/ \E e \in EffectIds : RequestFails(e)
    \/ \E e \in EffectIds : Tick(e)
    \/ \E p \in PollIds : GetStatusJob(p)
    \/ \E p \in PollIds : GetStatusSummary(p)
    \/ \E p \in PollIds : StatusFails(p)
    \/ \E p \in PollIds : Deliver(p)
    \/ Commit
    \/ Rerender

NextClient ==
    \/ ClientStep
    \/ \E j \in JobIds : RunStep(j)

SpecClient == InitClient /\ [][NextClient]_vars

\* the session when database and file-system calls of the run may fail too
RunFault ==
    \/ \E j \in JobIds, e \in StoreErrors : StoreThrows(j, e)
    \/ \E j \in JobIds : CatchUpdateThrows(j)
    \/ \E j \in JobIds : \E dropped \in SUBSET (1..MaxUploads) : GetUploadsDropping(j, dropped)

NextClientFaults == NextClient \/ RunFault

SpecClientFaults == InitClientFaults /\ [][NextClientFaults]_vars

(***************************************************************************)
(* Credentials: deployments with and without environment keys              *)
(***************************************************************************)
InitKeys ==
    /\ uploads = <<>>
    /\ apiKeys = <<>>
    /\ env \in EnvChoices
    /\ jobs = <<>>
    /\ summaries = <<>>
    /\ files = <<>>
    /\ now = 1
    /\ run = <<>>
    /\ resp = NoResponse
    /\ faults = 0
    /\ narrative = <<>>
    /\ result = <<>>
    /\ view = NoView
    /\ effects = <<>>
    /\ polls = <<>>
    /\ handled = <<>>
    /\ reflections = <<>>
    /\ audioNotes = <<>>

\* the create-job request for the first upload
FirstUploadBody == [uploadIds |-> Arr(<<Num(1)>>), context |-> Undefined]

NextKeys ==
    \/ PostUpload(FileNames[1])
    \/ \E keys \in KeyChoices : PostApiKeys(keys)
    \/ GetApiKeysRoute
    \/ PostProcessAccepted(FirstUploadBody)
    \/ \E j \in JobIds : RunStep(j)

SpecKeys == InitKeys /\ [][NextKeys]_vars

(***************************************************************************)
(* The server with jobs running side by side and every entry point         *)
(***************************************************************************)
\* a response that carries only a status code
Answer(status) == [status |-> status, processingId |-> 0, keys |-> <<>>]

\* storage.getSummary(id)
getSummary(table, id) == IF id \in 1..Len(table) THEN <<table[id]>> ELSE <<>>

\* storage.getReflectionBySummaryId(summaryId)
getReflectionBySummaryId(table, summaryId) ==
    SelectSeq(table, LAMBDA r : r.summaryId = summaryId)

\* storage.getAudioNotesBySummaryId(summaryId)
getAudioNotesBySummaryId(table, summaryId) ==
    SelectSeq(table, LAMBDA n : n.summaryId = summaryId)

\* the :id of the summary routes (numeric: the 400 answers for other ids
\* touch nothing)
SummaryIdParams == 1..MaxConcurrent

\* bodies of POST /api/summaries/:id/reflection
ReflectionBodies ==
    { [pride |-> Str("p"), surprise |-> Undefined, question |-> Str("q"),
       role |-> Undefined],
      [pride |-> Num(1), surprise |-> Undefined, question |-> Undefined,
       role |-> Undefined] }

\* insertReflectionSchema: four optional texts
ParseReflection(body) ==
    \A f \in {"pride", "surprise", "question", "role"} : ParseOptionalString(body[f])

\* bodies of POST /api/summaries/:id/notes
NoteBodies ==
    { [timestamp |-> Num(3), text |-> Str("n")],
      [timestamp |-> Num(3), text |-> Str("")] }

\* noteBodySchema: a non-negative integer and a text of at least one character
ParseNote(body) ==
    /\ body.timestamp.kind = "number" /\ body.timestamp.n >= 0
    /\ body.text.kind = "string" /\ body.text.s # ""

noteFrame ==
    <<uploads, apiKeys, env, jobs, summaries, files, now, run, faults,
      textVars, clientVars>>

\* POST /api/summaries/:id/reflection: 404 without the summary, 400 for a
\* body the schema rejects, else createReflection and 201
PostReflection(summaryId, body) ==
    /\ IF getSummary(summaries, summaryId) = <<>>
       THEN resp' = Answer(404) /\ UNCHANGED reflections
       ELSE IF ~ParseReflection(body)
       THEN resp' = Answer(400) /\ UNCHANGED reflections
       ELSE /\ Len(reflections) < MaxNotes
            /\ reflections' = Append(reflections,
                                  [id |-> Len(reflections) + 1,
                                   summaryId |-> summaryId,
                                   pride |-> body.pride, surprise |-> body.surprise,
                                   question |-> body.question, role |-> body.role])
            /\ resp' = Answer(201)
    /\ UNCHANGED <<audioNotes, noteFrame>>

\* GET /api/summaries/:id/reflections/export: 404 without reflections
ExportReflections(summaryId) ==
    /\ resp' = IF getReflectionBySummaryId(reflections, summaryId) = <<>>
               THEN Answer(404) ELSE Answer(200)
    /\ UNCHANGED <<reflections, audioNotes, noteFrame>>

\* GET /api/summaries/:id/notes: 404 without the summary
GetNotes(summaryId) ==
    /\ resp' = IF getSummary(summaries, summaryId) = <<>>
               THEN Answer(404) ELSE Answer(200)
    /\ UNCHANGED <<reflections, audioNotes, noteFrame>>

\* POST /api/summaries/:id/notes: 400 for a body the schema rejects, 404
\* without the summary, else createAudioNote and 201
PostNote(summaryId, body) ==
    /\ IF ~ParseNote(body)
       THEN resp' = Answer(400) /\ UNCHANGED audioNotes
       ELSE IF getSummary(summaries, summaryId) = <<>>
       THEN resp' = Answer(404) /\ UNCHANGED audioNotes
       ELSE /\ Len(audioNotes) < MaxNotes
            /\ audioNotes' = Append(audioNotes,
                                 [id |-> Len(audioNotes) + 1,
                                  summaryId |-> summaryId,
                                  timestamp |-> body.timestamp.n,
                                  text |-> body.text.s])
            /\ resp' = Answer(201)
    /\ UNCHANGED <<reflections, noteFrame>>

\* GET /api/summaries/:id/audio/download: 404 without the summary or
\* without its file
DownloadAudio(summaryId) ==
    /\ LET summary == getSummary(summaries, summaryId)
       IN resp' = IF summary = <<>> THEN Answer(404)
                  ELSE IF AudioFileOf(summary[1].audioUrl) \notin DOMAIN files
                  THEN Answer(404)
                  ELSE Answer(200)
    /\ UNCHANGED <<reflections, audioNotes, noteFrame>>

\* GET /audio/:filename: 404 without the file
ServeAudio(filename) ==
    /\ resp' = IF filename \in DOMAIN files THEN Answer(200) ELSE Answer(404)
    /\ UNCHANGED <<reflections, audioNotes, noteFrame>>

\* GET /api/process/:id/status arrives from some caller
StatusRequest(id) ==
    /\ Len(polls) < MaxStatusRequests
    /\ polls' = Append(polls, [effect |-> 0, id |-> id, stage |-> "sent",
                               job |-> <<>>, response |-> <<>>])
    /\ UNCHANGED <<uploads, jobs, run, resp, view, effects, handled, clientFrame>>

\* POST /api/process for the first upload while fewer than MaxConcurrent
\* jobs exist
PostProcessConcurrent ==
    /\ Len(jobs) < MaxConcurrent
    /\ ProcessRoute(FirstUploadBody)
    /\ UNCHANGED <<uploads, apiKeys, env, summaries, files, now, fixedVars>>

NextServer ==
    \/ PostUpload(FileNames[1])
    \/ \E keys \in KeyChoices : PostApiKeys(keys)
    \/ GetApiKeysRoute
    \/ PostProcessConcurrent
    \/ \E j \in JobIds : RunStep(j)
    \/ \E id \in 1..MaxConcurrent : StatusRequest(id)
    \/ \E p \in PollIds : GetStatusJob(p)
    \/ \E p \in PollIds : GetStatusSummary(p)
    \/ \E id \in SummaryIdParams, body \in ReflectionBodies : PostReflection(id, body)
    \/ \E id \in SummaryIdParams : ExportReflections(id)
    \/ \E id \in SummaryIdParams : GetNotes(id)
    \/ \E id \in SummaryIdParams, body \in NoteBodies : PostNote(id, body)
    \/ \E id \in SummaryIdParams : DownloadAudio(id)
    \/ \E t \in 1..MaxClock : ServeAudio(AudioFilename(t))

SpecServer == Init /\ [][NextServer]_vars

(***************************************************************************)
(* Two runs side by side, with and without answers of the collaborators    *)
(***************************************************************************)
\* the row POST /api/process inserts for the first upload
FirstUploadJob ==
    [uploadIds |-> SchemaParse(FirstUploadBody).data.uploadIds,
     context |-> SchemaParse(FirstUploadBody).data.context]

\* the server after a.pdf was uploaded, both keys were saved and two
\* create-job requests for the upload were answered: both runs wait at
\* their first await
InitConcurrent ==
    /\ uploads = <<FileNames[1]>>
    /\ apiKeys = <<[gemini |-> "dbG", elevenlabs |-> "dbE"]>>
    /\ env = NoEnvKeys
    /\ jobs = createProcessingJob(createProcessingJob(<<>>, FirstUploadJob),
                                  FirstUploadJob)
    /\ summaries = <<>>
    /\ files = <<>>
    /\ now = 1
    /\ run = <<[InitRun EXCEPT !.body = <<FirstUploadBody>>],
               [InitRun EXCEPT !.body = <<FirstUploadBody>>]>>
    /\ resp = [status |-> 201, processingId |-> 2, keys |-> <<>>]
    /\ faults = 0
    /\ narrative = <<>>
    /\ result = <<>>
    /\ view = NoView
    /\ effects = <<>>
    /\ polls = <<>>
    /\ handled = <<>>
    /\ reflections = <<>>
    /\ audioNotes = <<>>

NextConcurrent == \E j \in JobIds : RunStep(j)

SpecConcurrent == InitConcurrent /\ [][NextConcurrent]_vars

\* the second run is scheduled whenever it can take a step (its awaited
\* calls settle and Node runs the continuation); nothing is assumed of the
\* first run, whose calls may be slow or never return
SpecOneRunStalls == SpecConcurrent /\ WF_vars(RunStep(2))

\* the steps of a run that follow an awaited database or file-system call
StoreStep(j) ==
    \/ GetJob(j)
    \/ UpdProcessing(j)
    \/ GetUploads(j)
    \/ UpdSummarizing(j)
    \/ GetApiKeys(j)
    \/ \E t \in 1..MaxClock : UpdConverting(j, t)
    \/ WriteFile(j)
    \/ CreateSummary(j)
    \/ UpdCompleted(j)
    \/ CatchUpdate(j)

\* database and file-system calls are answered and their continuations run;
\* nothing is assumed of the extraction, summarization and synthesis calls,
\* which the code awaits without a timeout
SpecCallsMayHang ==
    SpecConcurrent /\ WF_vars(StoreStep(1)) /\ WF_vars(StoreStep(2))

(***************************************************************************)
(* The derivation of title and description alone                           *)
(***************************************************************************)
\* a line of n characters, no two neighbours alike
Fill(n) == [i \in 1..n |-> IF i % 2 = 1 THEN "a" ELSE "b"]

\* what precedes the long line: nothing (it is the title), a title (it is
\* the line the loop skips), or a title and a first paragraph
Heads == {<<>>, <<"a", "\n">>, <<"a", "\n", "b", "\n">>,
          <<"#", "a", "\n", "\n", "b", "\n">>}

\* texts whose last line has a length around the description limit
LongNarratives ==
    {h \o Fill(n) : h \in Heads,
                    n \in (DescriptionLimit - MaxOver)..(DescriptionLimit + MaxOver)}

InitText ==
    /\ uploads = <<>>
    /\ apiKeys = <<>>
    /\ env = NoEnvKeys
    /\ jobs = <<>>
    /\ summaries = <<>>
    /\ files = <<>>
    /\ now = 1
    /\ run = <<>>
    /\ resp = NoResponse
    /\ faults = 0
    /\ narrative \in Strings(MaxTextLen) \cup LongNarratives
    /\ result = <<>>
    /\ view = NoView
    /\ effects = <<>>
    /\ polls = <<>>
    /\ handled = <<>>
    /\ reflections = <<>>
    /\ audioNotes = <<>>

\* response.text() is narrative: generateSummary returns its SummaryResult
GenerateSummary ==
    /\ result = <<>>
    /\ result' = <<SummaryResult(narrative)>>
    /\ UNCHANGED <<uploads, apiKeys, env, jobs, summaries, files, now, run, resp,
                   faults, narrative, noteVars, clientVars>>

NextText == GenerateSummary

SpecText == InitText /\ [][NextText]_vars

(***************************************************************************)
(* Properties                                                              *)
(***************************************************************************)
Terminal == {"completed", "error"}

NonTerminal == Statuses \ Terminal

\* the edges of the status diagram
Edges ==
    { <<"pending", "processing">>, <<"processing", "summarizing">>,
      <<"summarizing", "converting">>, <<"converting", "completed">> }
    \cup { <<s, "error">> : s \in NonTerminal }

\* C1: every change of a job's status in the Job Store is one of the edges
\* pending->processing, processing->summarizing, summarizing->converting,
\* converting->completed, or non-terminal->error.
C1_StatusEdges ==
    [][\A j \in 1..Len(jobs) :
          jobs'[j].status # jobs[j].status
              => <<jobs[j].status, jobs'[j].status>> \in Edges]_vars

\* a job has gone along the whole chain, and its run has ended
C1_Witness ==
    \E j \in JobIds : jobs[j].status = "completed" /\ run[j].pc = "resolved"

\* C2, as claimed: whenever a run has ended by throwing, its job has status
\* error, whatever threw (a Job Store call included).
C2_ThrownRunEndsInError ==
    \A j \in JobIds : run[j].pc = "rejected" => jobs[j].status = "error"

\* C2, amended: a run that has ended by throwing leaves its job in status
\* error if the update of the catch handler succeeded; if that update threw
\* as well, the job keeps a non-terminal status and no error message.
C2_ThrownRunEndsInErrorUnlessCatchFails ==
    \A j \in JobIds :
        run[j].pc = "rejected" =>
            IF run[j].catchThrew
            THEN jobs[j].status \in NonTerminal /\ jobs[j].error = <<>>
            ELSE jobs[j].status = "error"

\* a Job Store call of the try block threw and the job ended in error
C2_Witness ==
    \E j \in JobIds :
        /\ run[j].pc = "rejected"
        /\ run[j].error[1] \in StoreErrors
        /\ ~run[j].catchThrew
        /\ jobs[j].status = "error"

\* C3: once a job's status is completed or error, no step changes its
\* status or its progress (so it reaches at most one terminal status).
C3_TerminalIsFinal ==
    [][\A j \in 1..Len(jobs) :
          jobs[j].status \in Terminal
              => /\ jobs'[j].status = jobs[j].status
                 /\ jobs'[j].progress = jobs[j].progress]_vars

\* a job is terminal, its run has ended, and a later request was answered
C3_Witness ==
    \E j \in JobIds :
        /\ jobs[j].status \in Terminal
        /\ run[j].pc \in {"resolved", "rejected"}
        /\ resp.status = 400

\* C4, as claimed: in every state getSummaryByProcessingJobId returns a
\* Summary for a job if and only if the job's status is completed.
C4_SummaryIffCompleted ==
    \A j \in JobIds :
        getSummaryByProcessingJobId(summaries, j) # <<>>
            <=> jobs[j].status = "completed"

\* C4, amended: a completed job always has a Summary; a Summary exists only
\* for a job whose status is converting (it is inserted just before the
\* update to completed), completed, or error (when that update threw).
C4_CompletedHasSummary ==
    \A j \in JobIds :
        /\ jobs[j].status = "completed"
               => getSummaryByProcessingJobId(summaries, j) # <<>>
        /\ getSummaryByProcessingJobId(summaries, j) # <<>>
               => jobs[j].status \in {"converting", "completed", "error"}

\* a completed job with its Summary
C4_Witness ==
    \E j \in JobIds :
        /\ jobs[j].status = "completed"
        /\ getSummaryByProcessingJobId(summaries, j) # <<>>
        /\ getSummaryByProcessingJobId(summaries, j)[1].processingJobId = j

\* C5, as claimed: no Job record exists for a request whose identifier list
\* is empty or matches no stored upload (uploads are never deleted, so a
\* list that matches none now matched none when the job was created).
C5_NoJobForUnresolvableIds ==
    \A j \in JobIds :
        \E i \in 1..Len(jobs[j].uploadIds) :
            /\ jobs[j].uploadIds[i].kind = "number"
            /\ jobs[j].uploadIds[i].n \in 1..Len(uploads)

\* C5, amended: a request whose body is malformed (uploadIds missing, not
\* an array or holding a non-number; a context that is not an object of
\* optional strings) is answered 400 without a Job record or a run: every
\* Job record holds a well-formed request, every run belongs to a Job
\* record, and a step that answers 400 changes neither jobs nor runs.
C5_MalformedRejected ==
    /\ [](\A j \in JobIds :
            /\ \A i \in 1..Len(jobs[j].uploadIds) :
                   jobs[j].uploadIds[i].kind = "number"
            /\ \/ jobs[j].context.kind = "undefined"
               \/ /\ jobs[j].context.kind = "object"
                  /\ \A f \in ContextFields :
                         jobs[j].context[f].kind \in {"undefined", "string"})
    /\ [](Len(run) = Len(jobs))
    /\ [][resp'.status = 400 /\ resp' # resp => jobs' = jobs /\ run' = run]_vars

\* a request has been answered 400 and no Job record exists
C5_Witness == resp.status = 400 /\ Len(jobs) = 0

\* the settled calls of one collaborator in a run, in call order
CallsOf(j, fn) == SelectSeq(run[j].calls, LAMBDA c : c.fn = fn)

\* how many of them threw
ThrewCount(j, fn) ==
    Len(SelectSeq(run[j].calls, LAMBDA c : c.fn = fn /\ c.outcome = "threw"))

\* the extraction attempt of every resolved document of the run has ended
ExtractionEnded(j) ==
    /\ Len(run[j].uploads) >= 1
    /\ Len(CallsOf(j, "extractTextFromPDF")) = Len(run[j].uploads)

\* C6: with N resolved documents of which k < N failed to extract, the run
\* goes from processing to summarizing, not to error, and the text given to
\* the summarizer has the N-k extracted texts and one placeholder marker for
\* each of the k failed documents.
C6_PartialExtractionProceeds ==
    /\ [](\A j \in JobIds :
            LET r == run[j]
                N == Len(r.uploads)
                ex == CallsOf(j, "extractTextFromPDF")
                k == ThrewCount(j, "extractTextFromPDF")
                sum == CallsOf(j, "generateSummary")
            IN (ExtractionEnded(j) /\ k < N) =>
                 /\ r.pc = "updSummarizing" \/ jobs[j].progress >= 40
                 /\ r.pc = "updSummarizing" => jobs[j].status = "processing"
                 /\ \A c \in 1..Len(sum) :
                      LET text == sum[c].documentText
                      IN /\ Len(text) = N
                         /\ Cardinality({i \in 1..N : text[i].extracted}) = N - k
                         /\ Cardinality({i \in 1..N : ~text[i].extracted}) = k
                         /\ \A i \in 1..N :
                              IF ex[i].outcome = "threw"
                              THEN text[i] = ErrorSegment(r.uploads[i])
                              ELSE text[i] = TextSegment(r.uploads[i],
                                                 FileText(r.uploads[i].id)))
    /\ [][\A j \in 1..Len(jobs) :
            (run[j].pc = "updSummarizing" /\ run'[j].pc # "updSummarizing")
                => /\ jobs[j].status = "processing"
                   /\ jobs'[j].status = "summarizing"]_vars

\* two documents, one failed: the job is summarizing and the summarizer
\* has been called
C6_Witness ==
    \E j \in JobIds :
        /\ Len(run[j].uploads) = 2
        /\ ExtractionEnded(j)
        /\ ThrewCount(j, "extractTextFromPDF") = 1
        /\ Len(CallsOf(j, "generateSummary")) = 1
        /\ jobs[j].status = "summarizing"

\* C7: when extraction threw for every one of the N >= 1 resolved documents,
\* the run ends with status error, progress 20 and a non-empty error
\* message, and neither generateSummary nor convertTextToSpeech is called.
C7_NoExtractionIsFatal ==
    \A j \in JobIds :
        LET r == run[j]
        IN (/\ ExtractionEnded(j)
            /\ ThrewCount(j, "extractTextFromPDF") = Len(r.uploads)) =>
             /\ r.pc \in {"catchUpdate", "rejected"}
             /\ CallsOf(j, "generateSummary") = <<>>
             /\ CallsOf(j, "convertTextToSpeech") = <<>>
             /\ jobs[j].progress = 20
             /\ r.pc = "catchUpdate" => jobs[j].status = "processing"
             /\ r.pc = "rejected" =>
                    /\ jobs[j].status = "error"
                    /\ jobs[j].error # <<>>
                    /\ jobs[j].error[1] # ""

\* two documents, both failed, and the run has ended
C7_Witness ==
    \E j \in JobIds :
        /\ Len(run[j].uploads) = 2
        /\ ExtractionEnded(j)
        /\ ThrewCount(j, "extractTextFromPDF") = 2
        /\ run[j].pc = "rejected"
        /\ jobs[j].status = "error"

\* C8: when generateSummary threw, the run ends with status error, reached
\* from summarizing with progress 40, and no Summary record exists for the
\* job in any later state.
C8_SummarizerFailureIsFatal ==
    \A j \in JobIds :
        ThrewCount(j, "generateSummary") > 0 =>
            /\ run[j].pc \in {"catchUpdate", "rejected"}
            /\ getSummaryByProcessingJobId(summaries, j) = <<>>
            /\ jobs[j].progress = 40
            /\ run[j].pc = "catchUpdate" => jobs[j].status = "summarizing"
            /\ run[j].pc = "rejected" => jobs[j].status = "error"

\* generateSummary threw and the run has ended
C8_Witness ==
    \E j \in JobIds :
        /\ ThrewCount(j, "generateSummary") = 1
        /\ run[j].pc = "rejected"
        /\ jobs[j].status = "error"

\* C9: when convertTextToSpeech threw, or no ElevenLabs key was resolved,
\* the job never gets status error from it: the run ends with status
\* completed, progress 100 and a Summary whose audioUrl names a stored file,
\* which is the empty placeholder this run wrote.
C9_SynthesisFailureIsNotFatal ==
    \A j \in JobIds :
        LET r == run[j]
            summary == getSummaryByProcessingJobId(summaries, j)
        IN (\/ ThrewCount(j, "convertTextToSpeech") > 0
            \/ r.audioFilename # <<>> /\ r.elevenlabsKey = "") =>
             /\ r.pc \in {"writeFile", "createSummary", "updCompleted", "resolved"}
             /\ jobs[j].status \in {"converting", "completed"}
             /\ r.pc = "resolved" =>
                    /\ jobs[j].status = "completed"
                    /\ jobs[j].progress = 100
                    /\ summary # <<>>
                    /\ AudioFileOf(summary[1].audioUrl) \in DOMAIN files
                    /\ files[AudioFileOf(summary[1].audioUrl)].job = j
                           => files[AudioFileOf(summary[1].audioUrl)].kind = "empty"

\* convertTextToSpeech threw and the run has ended
C9_Witness ==
    \E j \in JobIds :
        /\ ThrewCount(j, "convertTextToSpeech") = 1
        /\ run[j].pc = "resolved"
        /\ jobs[j].status = "completed"

\* no key was resolved and the run has ended (the other case of C9)
C9_NoKeyReached ==
    \E j \in JobIds :
        /\ run[j].audioFilename # <<>>
        /\ run[j].elevenlabsKey = ""
        /\ run[j].pc = "resolved"

\* C10: for a text whose non-empty lines are a title line, a description
\* paragraph and a body, the title is the first non-empty line, the
\* description the second non-empty line and the text the whole text.
C10_SecondLineIsDescription ==
    result # <<>> =>
        LET lines == NonEmptyLines(narrative)
        IN (Len(lines) >= 3 /\ lines[1][1] # "#") =>
             /\ result[1].title = lines[1]
             /\ result[1].description = lines[2]
             /\ result[1].text = narrative

\* C11: when the first non-empty line is one or more '#' characters followed
\* by text, the derived title has no leading '#'.
C11_TitleHasNoLeadingMarker ==
    result # <<>> =>
        LET lines == NonEmptyLines(narrative)
        IN (/\ Len(lines) > 0
            /\ lines[1][1] = "#"
            /\ \E i \in 2..Len(lines[1]) : lines[1][i] \notin {"#", " "})
           => (result[1].title = <<>> \/ result[1].title[1] # "#")

\* the paragraph the description loop selects, <<>> when there is none
Candidate == DescriptionLoop(NonEmptyLines(narrative), 2, FALSE)

IsPrefix(p, s) == Len(p) <= Len(s) /\ SubSeq(s, 1, Len(p)) = p

\* C12: the description is at most 200 characters long; a candidate longer
\* than 200 is cut to a prefix of itself followed by the ellipsis, a candidate
\* of at most 200 is kept unchanged, and without a candidate the description
\* is the generic fallback string.
C12_DescriptionAtMostLimit ==
    result # <<>> =>
        LET d == result[1].description
        IN /\ Len(d) <= DescriptionLimit
           /\ Len(Candidate) > DescriptionLimit =>
                 /\ Len(d) > Len(Ellipsis)
                 /\ SubSeq(d, Len(d) - Len(Ellipsis) + 1, Len(d)) = Ellipsis
                 /\ IsPrefix(SubSeq(d, 1, Len(d) - Len(Ellipsis)), Candidate)
           /\ (Candidate # <<>> /\ Len(Candidate) <= DescriptionLimit) =>
                 d = Candidate
           /\ Candidate = <<>> => d = DefaultDescription

\* a candidate longer than the limit has been cut
C12_Witness ==
    /\ result # <<>>
    /\ Len(Candidate) > DescriptionLimit
    /\ Len(result[1].description) = DescriptionLimit

\* a candidate of exactly the limit is kept (the boundary case of C12)
C12_LimitKept ==
    /\ result # <<>>
    /\ Len(Candidate) = DescriptionLimit
    /\ result[1].description = Candidate

\* no candidate: the fallback (the third case of C12)
C12_FallbackReached ==
    /\ result # <<>>
    /\ Candidate = <<>>
    /\ result[1].description = DefaultDescription

\* values a caller of createProcessingJob may pass: the two fields of
\* InsertProcessingJob, alone or with a status and a progress of its own
CallerJobs ==
    LET base == [uploadIds |-> <<Num(1)>>, context |-> Undefined]
    IN {base} \cup
       {[status |-> st, progress |-> pr] @@ base :
            st \in Statuses, pr \in {0, 20, 100}}

\* C13: createProcessingJob stores the new job with status pending and
\* progress 0 whatever the caller supplies, and a request that creates a job
\* is answered 201 with the identifier of the job it created.
C13_CreatedPendingZero ==
    /\ [](\A insertJob \in CallerJobs :
             LET table == createProcessingJob(jobs, insertJob)
                 job == table[Len(table)]
             IN /\ Len(table) = Len(jobs) + 1
                /\ SubSeq(table, 1, Len(jobs)) = jobs
                /\ job.status = "pending"
                /\ job.progress = 0)
    /\ [][Len(jobs') # Len(jobs) =>
            /\ Len(jobs') = Len(jobs) + 1
            /\ jobs'[Len(jobs')].status = "pending"
            /\ jobs'[Len(jobs')].progress = 0
            /\ resp'.status = 201
            /\ resp'.processingId = jobs'[Len(jobs')].id]_vars

\* a job has just been created and its identifier returned
C13_Witness ==
    /\ resp.status = 201
    /\ resp.processingId \in JobIds
    /\ jobs[resp.processingId].id = resp.processingId
    /\ jobs[resp.processingId].status = "pending"
    /\ jobs[resp.processingId].progress = 0

\* C14: a job's progress is an integer from 0 to 100, no step lowers it, and
\* the step that makes the status error leaves the progress as it was.
C14_ProgressMonotone ==
    /\ [](\A j \in JobIds : jobs[j].progress \in 0..100)
    /\ [][\A j \in JobIds :
            /\ jobs'[j].progress >= jobs[j].progress
            /\ (jobs'[j].status = "error" /\ jobs[j].status # "error")
                 => jobs'[j].progress = jobs[j].progress]_vars

\* a run failed in a stage after the first and the job kept that stage's
\* progress
C14_Witness ==
    \E j \in JobIds :
        /\ jobs[j].status = "error"
        /\ jobs[j].progress = 40
        /\ run[j].pc = "rejected"

\* a status response that carries a terminal status
TerminalResponse(r) == r.ok /\ r.status \in Terminal

\* the polls of effect run e that its callback has received
Received(e) == {p \in PollIds : polls[p].effect = e /\ polls[p].stage = "done"}

\* C15: once an interval callback has received a response whose status is
\* completed or error, its interval is no longer active and the poller that
\* received it sends no further status request.
C15_StopsAtTerminal ==
    /\ [](\A e \in EffectIds :
             (\E p \in Received(e) : TerminalResponse(polls[p].response[1]))
                 => effects[e].interval # "active")
    /\ [][\A e \in EffectIds :
            (\E p \in Received(e) : TerminalResponse(polls[p].response[1]))
                => \A q \in (DOMAIN polls') \ (DOMAIN polls) :
                       polls'[q].effect # e]_vars

\* a live poller received a terminal response while it could still have
\* sent a request
C15_Witness ==
    \E p \in PollIds :
        /\ polls[p].stage = "done"
        /\ TerminalResponse(polls[p].response[1])
        /\ \E i \in DOMAIN handled : handled[i].poll = p
        /\ effects[polls[p].effect].interval = "cleared"
        /\ view.mounted
        /\ Len(polls) < MaxPolls

\* the handler calls made for status responses (poll 0 is the outer catch)
PollCalls == {i \in DOMAIN handled : handled[i].poll # 0}

\* the job row a poll answered from, as the store holds it
PolledJob(p) == jobs[polls[p].id]

C16_GenericTextReached ==
    \E i \in PollCalls :
        /\ polls[handled[i].poll].response[1].ok
        /\ polls[handled[i].poll].response[1].status = "error"
        /\ PolledJob(handled[i].poll).error = <<"">>
        /\ handled[i].error = <<UnknownErrorMessage>>

\* the completion handler was called with a Summary (the other case of C16)
C16_CompletionReached ==
    \E i \in PollCalls : handled[i].handler = "onProcessingComplete"

\* C17: an effect run that was torn down has no active interval, an
\* unmounted view has none at all, and a response that settles in the
\* callback of a torn-down effect run calls no handler and leaves the view
\* as it was.
C17_TeardownIsClean ==
    /\ [](\A e \in EffectIds :
             ~effects[e].isMounted => effects[e].interval # "active")
    /\ [](~view.mounted => \A e \in EffectIds : effects[e].interval # "active")
    /\ [][\A p \in PollIds :
            (/\ polls[p].stage = "responded"
             /\ polls'[p].stage = "done"
             /\ ~effects[polls[p].effect].isMounted)
                => /\ handled' = handled
                   /\ view' = view]_vars

\* a terminal response settled after the teardown of its effect run: it is
\* received and no handler call was made for it
C17_Witness ==
    \E p \in PollIds :
        /\ polls[p].stage = "done"
        /\ TerminalResponse(polls[p].response[1])
        /\ ~effects[polls[p].effect].isMounted
        /\ effects[polls[p].effect].interval = "cleared"
        /\ \A i \in DOMAIN handled : handled[i].poll # p

\* C18: a status response with status completed carries the Summary of the
\* polled job, and the step that makes a job completed finds the job's
\* Summary already stored.
C18_CompletedResponseHasSummary ==
    /\ [](\A p \in PollIds :
             (/\ polls[p].response # <<>>
              /\ polls[p].response[1].ok
              /\ polls[p].response[1].status = "completed")
                 => LET stored == getSummaryByProcessingJobId(summaries, polls[p].id)
                    IN /\ stored # <<>>
                       /\ polls[p].response[1].summary = <<SummaryFields(stored[1])>>)
    /\ [][\A j \in JobIds :
            (jobs'[j].status = "completed" /\ jobs[j].status # "completed")
                => getSummaryByProcessingJobId(summaries, j) # <<>>]_vars

\* a status query has answered completed
C18_Witness ==
    \E p \in PollIds :
        /\ polls[p].response # <<>>
        /\ polls[p].response[1].ok
        /\ polls[p].response[1].status = "completed"
        /\ polls[p].response[1].summary # <<>>

\* the polls the status route has worked on in this step
Served == {p \in PollIds : /\ polls[p].stage \in {"sent", "summary"}
                            /\ polls'[p].stage # polls[p].stage}

\* C19: a step of the status route leaves every job row and every summary
\* row as it was, and two status responses for the same completed job carry
\* the same Summary.
C19_StatusQueryIsPureRead ==
    /\ [][Served # {} => /\ jobs' = jobs
                         /\ summaries' = summaries
                         /\ uploads' = uploads
                         /\ files' = files]_vars
    /\ [](\A p, q \in PollIds :
             (/\ polls[p].id = polls[q].id
              /\ polls[p].response # <<>> /\ polls[q].response # <<>>
              /\ polls[p].response[1].ok /\ polls[q].response[1].ok
              /\ polls[p].response[1].status = "completed"
              /\ polls[q].response[1].status = "completed")
                 => polls[p].response[1] = polls[q].response[1])

\* two status queries of the same job have both answered completed
C19_Witness ==
    \E p, q \in PollIds :
        /\ p # q
        /\ polls[p].id = polls[q].id
        /\ polls[p].response # <<>> /\ polls[q].response # <<>>
        /\ polls[p].response[1].status = "completed"
        /\ polls[q].response[1].status = "completed"

\* the Summary rows of job j
SummariesOf(j) == {i \in DOMAIN summaries : summaries[i].processingJobId = j}

\* no step removes or changes a Summary row, and a job never has two
SummaryWrittenOnce ==
    /\ [](\A j \in JobIds : Cardinality(SummariesOf(j)) <= 1)
    /\ [][/\ Len(summaries') >= Len(summaries)
          /\ SubSeq(summaries', 1, Len(summaries)) = summaries]_vars

\* C20, as claimed: a job has at most one Summary, no step changes a Summary
\* once created, and a Summary is created only by the run that completes the
\* job: its job is completed, or is being completed by the run that has
\* just created it.
C20_SummaryOnlyOfCompletingRun ==
    /\ SummaryWrittenOnce
    /\ [](\A i \in DOMAIN summaries :
             LET j == summaries[i].processingJobId
             IN /\ j \in JobIds
                /\ \/ jobs[j].status = "completed"
                   \/ run[j].pc = "updCompleted")

\* C20, amended: a job has at most one Summary, no step changes a Summary
\* once created, and a Summary is created only by the job's own run, as its
\* last step before the update to completed; when that update succeeds the
\* job is completed, and when it throws the Summary stays and the job ends in
\* error (or stays converting if the catch handler's update throws too).
C20_SummaryOnlyOfOwnRun ==
    /\ SummaryWrittenOnce
    /\ [](\A i \in DOMAIN summaries :
             LET j == summaries[i].processingJobId
             IN /\ j \in JobIds
                /\ summaries[i].audioUrl = AudioUrl(run[j].audioFilename)
                /\ summaries[i].text = run[j].aiSummary[1].text
                /\ \/ jobs[j].status = "completed" /\ run[j].pc = "resolved"
                   \/ jobs[j].status = "converting" /\ run[j].pc = "updCompleted"
                   \/ /\ faults > 0
                      /\ \/ jobs[j].status = "converting" /\ run[j].pc = "catchUpdate"
                         \/ jobs[j].status = "error" /\ run[j].pc = "rejected"
                         \/ /\ jobs[j].status = "converting"
                            /\ run[j].pc = "rejected"
                            /\ run[j].catchThrew)
    /\ [][\A j \in JobIds :
            SummariesOf(j)' # SummariesOf(j)
                => /\ run[j].pc = "createSummary"
                   /\ run'[j].pc = "updCompleted"]_vars

\* a run has created its Summary and completed its job
C20_Witness ==
    \E j \in JobIds :
        /\ Cardinality(SummariesOf(j)) = 1
        /\ jobs[j].status = "completed"
        /\ run[j].pc = "resolved"

\* the update to completed threw after the Summary was created (the case
\* the amendment of C20 adds)
C20_SummaryOfFailedJobReached ==
    \E j \in JobIds :
        /\ Cardinality(SummariesOf(j)) = 1
        /\ jobs[j].status = "error"

\* C21: completedAt is set if and only if the status is completed, it is
\* set in the step that makes the status completed, and it never changes
\* afterwards.
C21_CompletedAtIffCompleted ==
    /\ [](\A j \in JobIds :
             jobs[j].completedAt # <<>> <=> jobs[j].status = "completed")
    /\ [][\A j \in JobIds :
            /\ jobs'[j].completedAt # jobs[j].completedAt
                 => /\ jobs[j].completedAt = <<>>
                    /\ jobs[j].status # "completed"
                    /\ jobs'[j].status = "completed"
            /\ jobs[j].completedAt # <<>>
                 => jobs'[j].completedAt = jobs[j].completedAt]_vars

\* a job is completed and carries its completion time
C21_Witness ==
    \E j \in JobIds :
        /\ jobs[j].status = "completed"
        /\ jobs[j].completedAt = run[j].completedAt
        /\ jobs[j].completedAt # <<>>

\* C22: a job's error field is set only if its status is error.
C22_ErrorOnlyInError ==
    \A j \in JobIds : jobs[j].error # <<>> => jobs[j].status = "error"

\* a run has thrown and its catch handler has set the error field
C22_Witness ==
    \E j \in JobIds :
        /\ jobs[j].error # <<>>
        /\ jobs[j].status = "error"
        /\ run[j].pc = "rejected"

\* C23: a job whose status is error has a non-empty error message, whatever
\* the failing step threw.
C23_ErrorMessageNonEmpty ==
    \A j \in JobIds :
        jobs[j].status = "error" => /\ jobs[j].error # <<>>
                                    /\ jobs[j].error[1] # ""

\* what C23 says of a thrown value that is not an Error: the fixed text
C23_NonErrorGetsFixedText ==
    \A j \in JobIds :
        (jobs[j].status = "error" /\ ~run[j].error[1].isError)
            => jobs[j].error = <<"Unknown error occurred">>

\* the k-th smallest element of a set of numbers
Nth(S, k) == CHOOSE x \in S : Cardinality({y \in S : y <= x}) = k

\* the identifier list of job j as the run reads it
IdsOf(j) == NumberIds(jobs[j].uploadIds)

\* C24: the text passed to generateSummary has one segment for each document
\* getUploads returned, the segments follow the order of the job's
\* identifier list (they are the segments of an increasing selection of its
\* positions), and each segment carries the filename of its document.
C24_SegmentsFollowIdList ==
    \A j \in JobIds :
        \A c \in DOMAIN CallsOf(j, "generateSummary") :
            LET text == CallsOf(j, "generateSummary")[c].documentText
                ids == IdsOf(j)
            IN /\ Len(text) = Len(run[j].uploads)
               /\ \A i \in DOMAIN text :
                     text[i].filename = run[j].uploads[i].filename
               /\ \E S \in SUBSET DOMAIN ids :
                     /\ Cardinality(S) = Len(text)
                     /\ \A i \in DOMAIN text :
                           /\ ids[Nth(S, i)] \in DOMAIN uploads
                           /\ run[j].uploads[i].id = ids[Nth(S, i)]
                           /\ text[i].filename = uploads[ids[Nth(S, i)]]
                           /\ text[i].extracted
                                => text[i].text = FileText(ids[Nth(S, i)])

\* the job lists document 2 before document 1 and the summarizer got the
\* segment of b.pdf before that of a.pdf
C24_Witness ==
    \E j \in JobIds :
        /\ IdsOf(j) = <<2, 1>>
        /\ Len(CallsOf(j, "generateSummary")) = 1
        /\ LET text == CallsOf(j, "generateSummary")[1].documentText
           IN /\ Len(text) = 2
              /\ text[1].filename = FileNames[2]
              /\ text[2].filename = FileNames[1]

\* the identifiers of job j that have a row in the uploads table
Resolving(j) == {i \in DOMAIN IdsOf(j) : IdsOf(j)[i] \in DOMAIN uploads}

\* C25: when getUploads returns and none of the job's identifiers has a
\* stored upload, the run throws "No uploads found" without having called
\* extraction, summarization or synthesis, and it ends in status error with
\* none of them called; when some identifiers have one, the run goes on to
\* extraction with exactly the documents that resolve.
C25_NoUploadsIsFatal ==
    /\ [][\A j \in JobIds :
            (run[j].pc = "getUploads" /\ run'[j].pc # "getUploads")
                => IF Resolving(j) = {}
                   THEN /\ run'[j].pc = "catchUpdate"
                        /\ run'[j].error = <<Err("No uploads found")>>
                        /\ run'[j].calls = <<>>
                   ELSE /\ run'[j].pc = "extract"
                        /\ Len(run'[j].uploads) = Cardinality(Resolving(j))
                        /\ \A i \in DOMAIN run'[j].uploads :
                              run'[j].uploads[i].id = IdsOf(j)[Nth(Resolving(j), i)]]_vars
    /\ [](\A j \in JobIds :
             run[j].error = <<Err("No uploads found")>>
                 => /\ run[j].calls = <<>>
                    /\ run[j].pc = "rejected"
                         => /\ jobs[j].status = "error"
                            /\ jobs[j].error = <<"No uploads found">>)

\* a job none of whose identifiers resolved has ended in error
C25_Witness ==
    \E j \in JobIds :
        /\ run[j].error = <<Err("No uploads found")>>
        /\ run[j].pc = "rejected"
        /\ jobs[j].status = "error"
        /\ run[j].calls = <<>>

\* one of two identifiers had no stored upload and the run went on with
\* the other (the second case of C25)
C25_SomeMissingReached ==
    \E j \in JobIds :
        /\ Len(IdsOf(j)) = 2
        /\ Len(run[j].uploads) = 1
        /\ Len(CallsOf(j, "generateSummary")) = 1

\* the context of the request that created job j, as the caller sent it
SuppliedContext(j) == run[j].body[1].context

\* C26, as claimed: the context passed to generateSummary in a job's run is
\* exactly the context of the job's create request.
C26_ContextVerbatim ==
    \A j \in JobIds :
        \A c \in DOMAIN CallsOf(j, "generateSummary") :
            CallsOf(j, "generateSummary")[c].userContext = SuppliedContext(j)

\* C26, amended: the context passed to generateSummary is the context of
\* the create request restricted to the keys question, knowledge, interest
\* and conversation, each unchanged; any other key of the supplied context
\* is dropped by the request schema, and a request without a context passes
\* none.
C26_KnownContextFieldsVerbatim ==
    \A j \in JobIds :
        /\ jobs[j].context.kind = SuppliedContext(j).kind
        /\ \A c \in DOMAIN CallsOf(j, "generateSummary") :
             LET passed == CallsOf(j, "generateSummary")[c].userContext
                 sent == SuppliedContext(j)
             IN /\ passed = jobs[j].context
                /\ passed.kind = sent.kind
                /\ sent.kind = "object"
                     => /\ \A f \in ContextFields : passed[f] = sent[f]
                        /\ passed.extra = Undefined

\* generateSummary was called with the four fields the request carried
C26_Witness ==
    \E j \in JobIds :
        /\ Len(CallsOf(j, "generateSummary")) = 1
        /\ SuppliedContext(j) = Ctx(Str("why"), Str("k"), Str("i"), Str("c"), Undefined)
        /\ CallsOf(j, "generateSummary")[1].userContext = SuppliedContext(j)

\* generateSummary was called without the unknown key the request carried
C26_UnknownKeyDroppedReached ==
    \E j \in JobIds :
        /\ Len(CallsOf(j, "generateSummary")) = 1
        /\ SuppliedContext(j).kind = "object"
        /\ SuppliedContext(j).extra # Undefined
        /\ CallsOf(j, "generateSummary")[1].userContext.extra = Undefined

\* C27: the context of every job the session creates is the context the
\* user submitted in the context form (none when the form was skipped).
C27_FormContextReachesJob ==
    \A j \in JobIds :
        /\ SuppliedContext(j) = view.submitted
        /\ jobs[j].context = view.submitted

\* the user skipped the form and the job has no context (the case of C27
\* that holds)
C27_SkippedFormReached ==
    \E j \in JobIds :
        /\ view.submitted = Undefined
        /\ jobs[j].context = Undefined

\* the keys stored through the settings route, "" where there are none
StoredKey(service) == IF apiKeys = <<>> THEN "" ELSE apiKeys[1][service]

\* C28: when a run resolves its credentials, the key of each service is the
\* environment variable's value whenever the variable is set, and the stored
\* key only when it is not.
C28_EnvironmentKeyFirst ==
    [][\A j \in JobIds :
          (run[j].pc = "getApiKeys" /\ run'[j].pc = "generateSummary")
              => /\ run'[j].geminiKey =
                       IF env.GEMINI_API_KEY # "" THEN env.GEMINI_API_KEY
                       ELSE StoredKey("gemini")
                 /\ run'[j].elevenlabsKey =
                       IF env.ELEVENLABS_API_KEY # "" THEN env.ELEVENLABS_API_KEY
                       ELSE StoredKey("elevenlabs")]_vars

\* what the code does where C28 says otherwise: the stored key is used
\* whenever there is one, the environment variable's value only without one
C28_StoredKeyFirst ==
    [][\A j \in JobIds :
          (run[j].pc = "getApiKeys" /\ run'[j].pc = "generateSummary")
              => /\ run'[j].geminiKey =
                       IF StoredKey("gemini") # "" THEN StoredKey("gemini")
                       ELSE env.GEMINI_API_KEY
                 /\ run'[j].elevenlabsKey =
                       IF StoredKey("elevenlabs") # "" THEN StoredKey("elevenlabs")
                       ELSE env.ELEVENLABS_API_KEY]_vars

\* C29: a run that finds no Gemini key in the environment or in the stored
\* settings goes on to call generateSummary with a placeholder demo key and
\* does not throw for the missing key.
C29_DemoKeysInsteadOfFailure ==
    [][\A j \in JobIds :
          (/\ run[j].pc = "getApiKeys"
           /\ run'[j].pc # "getApiKeys"
           /\ env.GEMINI_API_KEY = ""
           /\ StoredKey("gemini") = "")
              => /\ run'[j].pc = "generateSummary"
                 /\ run'[j].geminiKey = DemoKeys.gemini]_vars

\* what the code does where C29 says otherwise: the run throws and
\* generateSummary is not called
C29_MissingKeyIsFatal ==
    [][\A j \in JobIds :
          (/\ run[j].pc = "getApiKeys"
           /\ run'[j].pc # "getApiKeys"
           /\ env.GEMINI_API_KEY = ""
           /\ StoredKey("gemini") = "")
              => /\ run'[j].pc = "catchUpdate"
                 /\ run'[j].error = <<Err("Gemini API key is not available")>>
                 /\ CallsOf(j, "generateSummary")' = <<>>]_vars

\* C30: the request that creates a job is answered 201 with the job's
\* identifier in the step that inserts the job, when its run waits at its
\* first await and no collaborator has been called, and no step of a run
\* changes a response.
C30_ResponseDoesNotWait ==
    /\ [][Len(jobs') # Len(jobs) =>
            LET id == Len(jobs')
            IN /\ resp' = [status |-> 201, processingId |-> jobs'[id].id,
                           keys |-> <<>>]
               /\ run'[id].pc = "getJob"
               /\ run'[id].calls = <<>>
               /\ jobs'[id].status = "pending"]_vars
    /\ [][(\E j \in JobIds : run'[j] # run[j]) => resp' = resp]_vars

\* the response of a job whose run later failed is the one that was sent
C30_Witness ==
    \E j \in JobIds :
        /\ resp = [status |-> 201, processingId |-> j, keys |-> <<>>]
        /\ jobs[j].status = "error"
        /\ run[j].pc = "rejected"
        /\ run[j].calls # <<>>

\* the response of a job whose run later completed is the same
C30_CompletedReached ==
    \E j \in JobIds :
        /\ resp = [status |-> 201, processingId |-> j, keys |-> <<>>]
        /\ jobs[j].status = "completed"

\* C31: a step that changes any field of a job's record is a step of that
\* job's own run; no step of another job's run and no request to the upload,
\* create-job, status, settings, reflection, notes or audio routes changes
\* it, and no record is ever removed.
C31_OnlyOwnRunWrites ==
    [][/\ Len(jobs') >= Len(jobs)
       /\ \A j \in JobIds : jobs'[j] # jobs[j] => RunStep(j)]_vars

\* two jobs have run side by side, each has written its record, and the
\* other entry points have been used meanwhile
C31_Witness ==
    /\ Len(jobs) = 2
    /\ jobs[1].status = "completed"
    /\ jobs[2].status \in {"summarizing", "converting"}
    /\ reflections # <<>>
    /\ \E p \in PollIds : polls[p].id = 1 /\ polls[p].stage = "responded"

\* C32: with two jobs running, the second run reaches a terminal status
\* whenever its own calls settle, whatever the first run does: the first
\* run may wait for a collaborator for ever (the two jobs are alike, so the
\* same holds with the roles exchanged).
C32_OtherRunAdvances == <>(jobs[2].status \in Terminal)

\* the second job has completed while the summarization call of the first
\* is still pending
C32_Witness ==
    /\ jobs[2].status = "completed"
    /\ run[2].pc = "resolved"
    /\ run[1].pc = "generateSummary"
    /\ jobs[1].status = "summarizing"

\* C33: every job reaches a terminal status also when an extraction,
\* summarization or synthesis call never returns, because each such call is
\* bounded by a timeout.
C33_HungCallStillTerminates ==
    \A j \in {1, 2} : <>(jobs[j].status \in Terminal)

\* what the code does where C33 says otherwise: a run whose collaborator
\* call is pending takes no step and writes nothing until the call settles
C33_PendingCallBlocksRun ==
    [][\A j \in JobIds :
          (run[j].pc \in {"extract", "generateSummary", "convert"}
             /\ run'[j] # run[j])
              => \/ ExtractReturns(j) \/ ExtractThrows(j)
                 \/ \E text \in Narratives : GenerateSummaryReturns(j, text)
                 \/ GenerateSummaryThrows(j)
                 \/ ConvertReturns(j) \/ ConvertThrows(j)]_vars

\* the collaborator calls of job j that have not settled: the extraction
\* the loop awaits and the pending summarization or synthesis call
InFlight(j) ==
    (IF run[j].pc = "extract" THEN 1 ELSE 0)
    + Cardinality({i \in DOMAIN run[j].calls : run[j].calls[i].outcome = "pending"})

\* C34: in the record of a run's collaborator calls, a summarization call
\* comes after one settled extraction call per resolved document and after
\* the loop has ended, a synthesis call comes right after a summarization
\* call that returned, and at most one call of the job is unsettled.
C34_StagesSequential ==
    \A j \in JobIds :
        LET c == run[j].calls
        IN /\ InFlight(j) <= 1
           /\ \A i \in DOMAIN c :
                 /\ c[i].outcome = "pending" => i = Len(c)
                 /\ c[i].fn = "generateSummary" =>
                        /\ i = Len(run[j].uploads) + 1
                        /\ \A k \in 1..(i - 1) :
                              /\ c[k].fn = "extractTextFromPDF"
                              /\ c[k].id = run[j].uploads[k].id
                              /\ c[k].outcome \in {"returned", "threw"}
                        /\ run[j].pc # "extract"
                 /\ c[i].fn = "convertTextToSpeech" =>
                        /\ i > 1
                        /\ c[i - 1].fn = "generateSummary"
                        /\ c[i - 1].outcome = "returned"

\* a run over two documents whose synthesis call is pending after two
\* extractions and a summarization
C34_Witness ==
    \E j \in JobIds :
        /\ Len(run[j].uploads) = 2
        /\ Len(run[j].calls) = 4
        /\ run[j].calls[4].fn = "convertTextToSpeech"
        /\ run[j].calls[4].outcome = "pending"
        /\ run[j].pc = "convert"

\* C35: in every state each job's status and progress are one of the
\* pairs pending 0, processing 20, summarizing 40, converting 70, completed
\* 100, or error with the progress of the stage that failed: 0, 20, 40 or 70.
C35_StatusProgressPairs ==
    \A j \in JobIds :
        LET job == jobs[j]
        IN CASE job.status = "pending" -> job.progress = 0
             [] job.status = "processing" -> job.progress = 20
             [] job.status = "summarizing" -> job.progress = 40
             [] job.status = "converting" -> job.progress = 70
             [] job.status = "completed" -> job.progress = 100
             [] job.status = "error" -> job.progress \in {0, 20, 40, 70}
             [] OTHER -> FALSE

\* a job has failed in the synthesis stage and keeps that stage's progress
C35_Witness ==
    \E j \in JobIds : jobs[j].status = "error" /\ jobs[j].progress = 70

\* a job has failed before its first update
C35_FailedAtZeroReached ==
    \E j \in JobIds : jobs[j].status = "error" /\ jobs[j].progress = 0

\* C36: the Summaries of two different jobs never have the same audioUrl,
\* and a step of a run never replaces an audio file another job has written.
C36_AudioNeverShared ==
    /\ [](\A a, b \in DOMAIN summaries :
            summaries[a].processingJobId # summaries[b].processingJobId
                => summaries[a].audioUrl # summaries[b].audioUrl)
    /\ [][\A f \in DOMAIN files :
              f \in DOMAIN files' /\ files'[f].job = files[f].job]_vars

\* what the code does where C36 says otherwise: the file name is made of
\* the clock reading alone, so two runs share a file exactly when they read
\* the same instant
C36_SharedIffSameInstant ==
    \A a, b \in DOMAIN summaries :
        (summaries[a].audioUrl = summaries[b].audioUrl)
            <=> (run[summaries[a].processingJobId].audioFilename
                   = run[summaries[b].processingJobId].audioFilename)

\* the handler calls made for terminal status responses of job j
HandledFor(j) ==
    {i \in DOMAIN handled :
        /\ handled[i].poll \in PollIds
        /\ polls[handled[i].poll].id = j
        /\ TerminalResponse(polls[handled[i].poll].response[1])}

\* C37: for a polled job the completion handler and the failure handler
\* are called at most once in all, also when several status requests are in
\* flight when the first terminal response arrives.
C37_HandlersAtMostOnce ==
    \A j \in JobIds : Cardinality(HandledFor(j)) <= 1

\* what the code does where C37 says otherwise: a handler is called for
\* every terminal or failed response that settles while the effect run that
\* sent the request has not been cleaned up
C37_OncePerResponseBeforeCleanup ==
    [][\A p \in PollIds :
          (polls[p].stage = "responded" /\ polls'[p].stage = "done")
              => LET r == polls[p].response[1]
                     calls == r.status = "error" \/ ~r.ok
                                \/ (r.status = "completed" /\ r.summary # <<>>)
                 IN Len(handled') = Len(handled)
                        + (IF effects[polls[p].effect].isMounted /\ calls
                           THEN 1 ELSE 0)]_vars

\* C38: a session stores its files once and creates one job: the uploads
\* table never holds more rows than the session has files and the jobs
\* table never more than one job, also when the effect runs again before a
\* job identifier is stored.
C38_UploadsAndCreatesOnce ==
    /\ Len(uploads) <= Len(UploadedFiles)
    /\ Len(jobs) <= 1

\* the failure handler has been called for a failed status request
StatusFailureHandled ==
    \E i \in DOMAIN handled : handled[i].error = <<StatusFailedMessage>>

\* C39: when a status request fails and the effect run that sent it is
\* live, its callback clears the interval and calls the failure handler with
\* the fixed text; after that no status request is sent any more, while the
\* steps of the run go on as before.
C39_FailedRequestStopsPolling ==
    /\ [][\A p \in PollIds :
              (/\ polls[p].stage = "responded"
               /\ polls'[p].stage = "done"
               /\ ~polls[p].response[1].ok
               /\ effects[polls[p].effect].isMounted)
                  => /\ handled' = Append(handled, OnError(StatusFailedMessage, p))
                     /\ effects'[polls[p].effect].interval = "cleared"]_vars
    /\ [][StatusFailureHandled => Len(polls') = Len(polls)]_vars
    /\ [](StatusFailureHandled =>
             \A e \in EffectIds : effects[e].interval # "active")
    /\ [](\A j \in JobIds :
             (StatusFailureHandled /\ run[j].pc \notin {"resolved", "rejected"})
                 => ENABLED RunStep(j))

\* the failure handler was called for a failed request while the job was
\* not terminal, and the run has completed the job since; no response ever
\* told the client
C39_Witness ==
    /\ StatusFailureHandled
    /\ \E j \in JobIds : jobs[j].status = "completed"
    /\ \A p \in PollIds :
          polls[p].stage = "done"
            /\ (polls[p].response[1].ok
                   => polls[p].response[1].status \in NonTerminal)
    /\ ~view.mounted

\* the failure handler has been called and the job is not terminal
C39_JobStillRunningReached ==
    /\ StatusFailureHandled
    /\ \E j \in JobIds : jobs[j].status = "summarizing"

====
